---- MODULE Spec2Model ----
(***************************************************************************)
(* Release-freshness checker of core/updater.py: GitHubReleaseChecker      *)
(* (URL resolver, retrying fetcher, normalizer, comparator, orchestrator), *)
(* and the command tree of core/mention_tree.py: MentionTree.              *)
(*                                                                         *)
(* Python strings are sequences of one-character strings.  Python values   *)
(* that may be of several types (JSON values, exceptions, str-or-None) are *)
(* records with a type tag "t".                                            *)
(***************************************************************************)
EXTENDS Integers, Sequences, FiniteSets, TLC

\* ------------------------------------------------------------------ bounds
\* Largest max_retries a checker is constructed with (the default is 3).
MaxRetriesBound == 3
\* Number of update-check invocations the model carries.
NumInvocations == 2
\* The largest timeout (self.timeout.total, in seconds) a checker is given
MaxTimeout == 2

\* The default of the max_retries parameter of GitHubReleaseChecker.__init__.
DefaultMaxRetries == 3
\* The length above which ReleaseInfo.truncated_body cuts the body.
BodyCap == 500

Invocations == 1..NumInvocations

\* ------------------------------------------------------------ Python values
\* None
None == [t |-> "none"]
\* a str value
Str(s) == [t |-> "str", s |-> s]

IsStr(v) == v.t = "str"

\* Python truthiness of a str-or-None value: `not v`
Falsy(v) == v.t = "none" \/ (v.t = "str" /\ v.s = <<>>)

\* ------------------------------------------------------- repository resolver
\* Repository references are sequences over these tokens:
\*   "G" the literal text github.com      "T" the literal text .git
\*   "/" and ":" themselves               "h", "a", "b", " " other characters
RepoChars == {"G", "T", "/", ":", "h", "a", "b", " "}

\* BotData.REPO_URL as the host configures it; core/config.py defines no
\* REPO_URL attribute at all, which is the value None here.
RepoUrls ==
    { Str(<<"h", ":", "/", "/", "G", "/", "a", "/", "b">>),
      Str(<<"h", ":", "/", "/", "G", "/", "a", "/", "b", "T">>),
      Str(<<"h", ":", "/", "/", "G", "/", "a", "/", "b", "/">>),
      Str(<<"a", "/", "b">>),
      Str(<<"a", " ", "b">>),
      Str(<<"a", "/", "b", "/", "a">>),
      Str(<<>>),
      None }

\* s[from..to] as a sequence (empty when from > to)
Slice(s, from, to) == SubSeq(s, from, to)

\* str.rstrip("/")
RECURSIVE RStripSlash(_)
RStripSlash(s) ==
    IF s # <<>> /\ s[Len(s)] = "/" THEN RStripSlash(Slice(s, 1, Len(s) - 1)) ELSE s

NoSlash(s) == \A k \in 1..Len(s) : s[k] # "/"

\* The positions of the "/" tokens of s
SlashPositions(s) == {k \in 1..Len(s) : s[k] = "/"}

Min(S) == CHOOSE x \in S : \A y \in S : x <= y

\* Mutant of RepoTailLengths: the repo group is greedy and there is no
\* optional ".git" after it
RepoTailLengths_greedy(r) ==
    {n \in 1..Len(r) :
        /\ NoSlash(Slice(r, 1, n))
        /\ \/ n = Len(r)
           \/ n + 1 = Len(r) /\ r[n + 1] = "/"}

\* ([^/]+?)(?:\.git)?/?$ on the text r that follows "owner/": the lazy repo
\* group is the shortest non-empty slash-free prefix after which an optional
\* ".git" and an optional "/" reach the end of the text.
RepoTailLengths(r) ==
    {n \in 1..Len(r) :
        /\ NoSlash(Slice(r, 1, n))
        /\ \/ n = Len(r)
           \/ n + 1 = Len(r) /\ r[n + 1] \in {"T", "/"}
           \/ n + 2 = Len(r) /\ r[n + 1] = "T" /\ r[n + 2] = "/"}

\* github\.com[:/]([^/]+)/([^/]+?)(?:\.git)?/?$ tried at position p of s:
\* the set of <<owner, repo>> it yields there (empty: no match at p).
FullMatchAt(s, p) ==
    IF ~(p + 1 <= Len(s) /\ s[p] = "G" /\ s[p + 1] \in {":", "/"}) THEN {}
    ELSE LET rest == Slice(s, p + 2, Len(s))
             sl   == SlashPositions(rest)
         IN  IF sl = {} \/ Min(sl) = 1 THEN {}
             ELSE LET owner == Slice(rest, 1, Min(sl) - 1)
                      tail  == Slice(rest, Min(sl) + 1, Len(rest))
                      ns    == RepoTailLengths(tail)
                  IN  IF ns = {} THEN {}
                      ELSE {<<owner, Slice(tail, 1, Min(ns))>>}

\* re.search with the full-URL pattern: leftmost position that matches
FullMatch(s) ==
    LET ps == {p \in 1..Len(s) : FullMatchAt(s, p) # {}}
    IN  IF ps = {} THEN {} ELSE FullMatchAt(s, Min(ps))

\* ^([^/]+)/([^/]+)$
ShortMatch(s) ==
    LET sl == SlashPositions(s)
    IN  IF Cardinality(sl) = 1 /\ Min(sl) > 1 /\ Min(sl) < Len(s)
        THEN {<<Slice(s, 1, Min(sl) - 1), Slice(s, Min(sl) + 1, Len(s))>>}
        ELSE {}

\* The exceptions of the module, as values
GitHubAPIError(msg) == [t |-> "GitHubAPIError", msg |-> msg]
OtherError(name) == [t |-> name, msg |-> [m |-> name, args |-> <<>>]]

\* GitHubReleaseChecker._convert_to_api_url: the patterns in order, first
\* match wins; [ok |-> TRUE, url] or [ok |-> FALSE, exc].
_convert_to_api_url(repo_url) ==
    LET full  == FullMatch(repo_url)
        short == ShortMatch(repo_url)
        m     == IF full # {} THEN full ELSE short
    IN  IF m # {}
        THEN LET g == CHOOSE x \in m : TRUE
             IN  [ok |-> TRUE,
                  url |-> [owner |-> g[1], repo |-> g[2]],
                  exc |-> None]
        ELSE [ok |-> FALSE,
              url |-> None,
              exc |-> GitHubAPIError([m |-> "Invalid GitHub URL format",
                                      args |-> <<[t |-> "str", s |-> repo_url]>>])]

\* --------------------------------------------------------------- data model
\* UpdateStatus
UP_TO_DATE == "up_to_date"
OUTDATED == "outdated"
AHEAD == "ahead"
ERROR == "error"
FETCH_FAILED == "fetch_failed"
INVALID_VERSION == "invalid_version"

UpdateStatus == {UP_TO_DATE, OUTDATED, AHEAD, ERROR, FETCH_FAILED, INVALID_VERSION}

\* A rendered message: the template and the values formatted into it
Msg(m, args) == [m |-> m, args |-> args]

\* ReleaseInfo(tag_name, name, html_url, published_at, body)
ReleaseInfo(tag_name, name, html_url, published_at, body) ==
    [t |-> "ReleaseInfo", tag_name |-> tag_name, name |-> name,
     html_url |-> html_url, published_at |-> published_at, body |-> body]

\* ReleaseInfo.truncated_body, on the characters of self.body
truncated_body(body) ==
    IF Len(body) > BodyCap THEN SubSeq(body, 1, BodyCap) \o <<".", ".", ".">>
    ELSE body

\* VersionComparison(...); release_info defaults to None
VersionComparison(status, message, current_version, latest_version, current_normalized, latest_normalized, release_info) ==
    [t |-> "VersionComparison", status |-> status, message |-> message,
     current_version |-> current_version, latest_version |-> latest_version,
     current_normalized |-> current_normalized,
     latest_normalized |-> latest_normalized, release_info |-> release_info]

\* The str literals of the module
Unknown == Str(<<"u", "n", "k", "n", "o", "w", "n">>)
Empty == Str(<<>>)
ZeroVersion == <<"0", ".", "0", ".", "0">>

\* ------------------------------------------------------- version normalizer
\* Version strings are sequences over VersionChars: the digits "0" "1" "2"
\* "3" "5" "9"; "N", which stands for one run of decimal digits longer than the
\* interpreter's limit for str -> int conversion (4300 digits); the
\* separators; "v"/"V"; and letters that belong to no PEP 440 keyword.
Digits == {"0", "1", "2", "3", "5", "9"}
BigDigits == "N"
Whitespace == {" "}
VersionChars ==
    Digits \cup {BigDigits, ".", "-", "_", " ", "v", "V", "x", "u", "n", "k", "o", "w"}

\* \d
IsDigit(c) == c \in Digits \/ c = BigDigits

\* str.lower() of one character
Lower(c) ==
    CASE c = "V" -> "v"
      [] c = "T" -> "t"
      [] c = "A" -> "a"
      [] c = "G" -> "g"
      [] c = "R" -> "r"
      [] c = "E" -> "e"
      [] c = "L" -> "l"
      [] c = "S" -> "s"
      [] c = "I" -> "i"
      [] c = "O" -> "o"
      [] OTHER -> c

\* str.strip()
RECURSIVE LStrip(_)
LStrip(s) == IF s # <<>> /\ s[1] \in Whitespace THEN LStrip(Tail(s)) ELSE s
RECURSIVE RStrip(_)
RStrip(s) ==
    IF s # <<>> /\ s[Len(s)] \in Whitespace THEN RStrip(Slice(s, 1, Len(s) - 1)) ELSE s
Strip(s) == LStrip(RStrip(s))

\* The alternatives of (v|version|release|tag), in the order the regex tries them
Labels ==
    << <<"v">>,
       <<"v", "e", "r", "s", "i", "o", "n">>,
       <<"r", "e", "l", "e", "a", "s", "e">>,
       <<"t", "a", "g">> >>

\* s starts with label, ignoring case
StartsWithCI(s, label) ==
    /\ Len(s) >= Len(label)
    /\ \A k \in 1..Len(label) : Lower(s[k]) = label[k]

\* [\s\-_]* at the start of s, removed
RECURSIVE DropSeparators(_)
DropSeparators(s) ==
    IF s # <<>> /\ (s[1] \in Whitespace \/ s[1] \in {"-", "_"})
    THEN DropSeparators(Tail(s)) ELSE s

\* re.sub(r"^(v|version|release|tag)[\s\-_]*", "", s, flags=re.IGNORECASE):
\* the first alternative that matches is taken (the separators may be empty,
\* so the regex never backtracks into a later alternative).
RemoveLabel(s) ==
    LET hits == {k \in 1..Len(Labels) : StartsWithCI(s, Labels[k])}
    IN  IF hits = {} THEN s
        ELSE DropSeparators(Slice(s, Len(Labels[Min(hits)]) + 1, Len(s)))

\* Mutant of DropNonDigits: the second clean-up is missing
DropNonDigits_keep(s) == s

\* re.sub(r"^[^\d]*", "", s)
RECURSIVE DropNonDigits(_)
DropNonDigits(s) ==
    IF s # <<>> /\ ~IsDigit(s[1]) THEN DropNonDigits(Tail(s)) ELSE s

\* Mutant of OrZero: the empty remainder is returned as it is
OrZero_keep_empty(normalized) == normalized

\* if not normalized: return "0.0.0"
OrZero(normalized) == IF normalized = <<>> THEN ZeroVersion ELSE normalized

\* GitHubReleaseChecker._normalize_version; version_str is a str-or-other value
_normalize_version(version_str) ==
    IF Falsy(version_str) \/ ~IsStr(version_str) THEN ZeroVersion
    ELSE OrZero(DropNonDigits(RemoveLabel(Strip(version_str.s))))

\* ------------------------------------------------------------ version parser
\* packaging.version.parse on the strings of the model's alphabet.  Of the
\* PEP 440 grammar these strings can only form
\*     release ( "-" post )?        release = number ("." number)*
\* between optional surrounding whitespace and after an optional "v": the
\* letters of VersionChars spell none of the pre/post/dev keywords.

\* The maximal run of digits at the start of s
RECURSIVE DigitRun(_)
DigitRun(s) ==
    IF s # <<>> /\ IsDigit(s[1]) THEN <<s[1]>> \o DigitRun(Tail(s)) ELSE <<>>

\* The release segment at the start of s: <<numbers, rest>>, numbers a
\* sequence of digit runs; numbers is empty when s does not start with one.
RECURSIVE ReleaseSegment(_)
ReleaseFrom(run, rest, more) ==
    IF run = <<>> THEN << <<>>, rest >>
    ELSE IF more[1] = <<>> THEN << <<run>>, rest >>
    ELSE << <<run>> \o more[1], more[2] >>
ReleaseAfterRun(s, run) ==
    ReleaseFrom(run, Slice(s, Len(run) + 1, Len(s)),
                IF Len(run) > 0 /\ Len(run) < Len(s) /\ s[Len(run) + 1] = "."
                THEN ReleaseSegment(Slice(s, Len(run) + 2, Len(s)))
                ELSE << <<>>, <<>> >>)
ReleaseSegment(s) == ReleaseAfterRun(s, DigitRun(s))

\* v? at the start of the stripped text, removed
DropV(t) == IF t # <<>> /\ Lower(t[1]) = "v" THEN Tail(t) ELSE t

\* What may follow the release: nothing, or "-" and a digit run to the end
PostShape(release, rest, run) ==
    IF release = <<>> THEN [ok |-> FALSE, release |-> <<>>, post |-> <<>>]
    ELSE IF rest = <<>> THEN [ok |-> TRUE, release |-> release, post |-> <<>>]
    ELSE IF rest[1] = "-" /\ run # <<>> /\ Len(run) = Len(rest) - 1
         THEN [ok |-> TRUE, release |-> release, post |-> run]
         ELSE [ok |-> FALSE, release |-> <<>>, post |-> <<>>]
ShapeAfterRelease(rel) ==
    PostShape(rel[1], rel[2], IF rel[2] = <<>> THEN <<>> ELSE DigitRun(Tail(rel[2])))

\* The shape the PEP 440 regex finds in s: [ok, release, post]; post is a
\* digit run or <<>> when the version has no post-release part.
VersionShape(s) == ShapeAfterRelease(ReleaseSegment(DropV(Strip(s))))

DigitValue(c) ==
    CASE c = "0" -> 0 [] c = "1" -> 1 [] c = "2" -> 2 [] c = "3" -> 3 [] c = "5" -> 5
      [] c = "9" -> 9
      [] OTHER -> 0

\* int(run) of a run of ordinary digits
RECURSIVE IntOf(_)
IntOf(run) ==
    IF run = <<>> THEN 0
    ELSE IntOf(Slice(run, 1, Len(run) - 1)) * 10 + DigitValue(run[Len(run)])

\* int(run) raises ValueError: the run exceeds the interpreter's digit limit
TooLong(run) == \E k \in 1..Len(run) : run[k] = BigDigits

\* The release with its trailing zeros removed (packaging's comparison key)
RECURSIVE TrimZeros(_)
TrimZeros(nums) ==
    IF nums # <<>> /\ nums[Len(nums)] = 0
    THEN TrimZeros(Slice(nums, 1, Len(nums) - 1)) ELSE nums

\* version.parse(s): [t |-> "Version", release, post] (post = -1: none),
\* or the exception it raises: InvalidVersion when the regex does not match,
\* ValueError when int() refuses a component.
ParseShape(shape) ==
    IF ~shape.ok THEN [t |-> "InvalidVersion", release |-> <<>>, post |-> -1]
    ELSE IF \/ \E k \in 1..Len(shape.release) : TooLong(shape.release[k])
            \/ TooLong(shape.post)
         THEN [t |-> "ValueError", release |-> <<>>, post |-> -1]
         ELSE [t |-> "Version",
               release |-> TrimZeros([k \in 1..Len(shape.release) |->
                                         IntOf(shape.release[k])]),
               post |-> IF shape.post = <<>> THEN -1 ELSE IntOf(shape.post)]
version_parse(s) == ParseShape(VersionShape(s))

\* Tuple order of two release keys: a < b
RECURSIVE ReleaseLess(_, _)
ReleaseLess(a, b) ==
    IF b = <<>> THEN FALSE
    ELSE IF a = <<>> THEN TRUE
    ELSE IF a[1] # b[1] THEN a[1] < b[1]
    ELSE ReleaseLess(Tail(a), Tail(b))

\* Mutant of VersionLess: the operands are taken the other way round
VersionLess_swapped(a, b) ==
    \/ ReleaseLess(b.release, a.release)
    \/ a.release = b.release /\ b.post < a.post

\* Version.__lt__
VersionLess(a, b) ==
    \/ ReleaseLess(a.release, b.release)
    \/ a.release = b.release /\ a.post < b.post

\* ------------------------------------------------------------ comparator
\* The exception text an error message embeds
ExcText(name) == [t |-> "exc", s |-> name]

\* Mutant of RaisedByParse: only the current version is parsed strictly
RaisedByParse_current_only(current_ver, latest_ver) ==
    IF current_ver.t # "Version" THEN current_ver.t ELSE "none"

\* The exception the two version.parse calls raise, the first one first
RaisedByParse(current_ver, latest_ver) ==
    IF current_ver.t # "Version" THEN current_ver.t
    ELSE IF latest_ver.t # "Version" THEN latest_ver.t
    ELSE "none"

\* Mutant of CompareParsed: no `except Exception` clause, so an error that is
\* no InvalidVersion leaves compare_versions as an exception
CompareParsed_no_catch_all(current_version, release_info, current_norm, latest_norm, current_ver, latest_ver, raised) ==
    IF raised = "none"
    THEN VersionComparison(
             IF VersionLess(current_ver, latest_ver) THEN OUTDATED
             ELSE IF VersionLess(latest_ver, current_ver) THEN AHEAD ELSE UP_TO_DATE,
             Msg("compared", <<current_version, release_info.tag_name>>),
             current_version, release_info.tag_name,
             Str(current_norm), Str(latest_norm), release_info)
    ELSE IF raised = "InvalidVersion"
    THEN VersionComparison(INVALID_VERSION,
             Msg("Invalid version format", <<ExcText(raised)>>),
             current_version, release_info.tag_name,
             Empty, Empty, release_info)
    ELSE OtherError(raised)

\* compare_versions from the comparison on: the branches and the handlers
CompareParsed(current_version, release_info, current_norm, latest_norm, current_ver, latest_ver, raised) ==
    IF raised = "none"
    THEN IF VersionLess(current_ver, latest_ver)
         THEN VersionComparison(OUTDATED,
                  Msg("outdated", <<current_version, release_info.tag_name>>),
                  current_version, release_info.tag_name,
                  Str(current_norm), Str(latest_norm), release_info)
         ELSE IF VersionLess(latest_ver, current_ver)
         THEN VersionComparison(AHEAD,
                  Msg("ahead", <<current_version, release_info.tag_name>>),
                  current_version, release_info.tag_name,
                  Str(current_norm), Str(latest_norm), release_info)
         ELSE VersionComparison(UP_TO_DATE,
                  Msg("up_to_date", <<current_version>>),
                  current_version, release_info.tag_name,
                  Str(current_norm), Str(latest_norm), release_info)
    ELSE IF raised = "InvalidVersion"
    THEN VersionComparison(INVALID_VERSION,
             Msg("Invalid version format", <<ExcText(raised)>>),
             current_version, release_info.tag_name,
             Empty, Empty, release_info)
    ELSE VersionComparison(ERROR,
             Msg("Error comparing versions", <<ExcText(raised)>>),
             current_version, release_info.tag_name,
             Empty, Empty, release_info)

CompareNormalized(current_version, release_info, current_norm, latest_norm, current_ver, latest_ver) ==
    CompareParsed(current_version, release_info, current_norm, latest_norm,
                  current_ver, latest_ver, RaisedByParse(current_ver, latest_ver))

CompareNorms(current_version, release_info, current_norm, latest_norm) ==
    CompareNormalized(current_version, release_info, current_norm, latest_norm,
                      version_parse(current_norm), version_parse(latest_norm))

\* GitHubReleaseChecker.compare_versions(current_version, release_info)
compare_versions(current_version, release_info) ==
    CompareNorms(current_version, release_info,
                 _normalize_version(current_version),
                 _normalize_version(release_info.tag_name))

\* ---------------------------------------------------------- HTTP and JSON
\* JSON values of a response body.  A JSON object is given by the value of
\* each key that ReleaseInfo reads (Absent: the object has no such key; None:
\* JSON null) and by whether it has any other key.
Absent == [t |-> "absent"]
JNull == [t |-> "null"]
JArray(len) == [t |-> "array", len |-> len]
JObject(tag_name, name, html_url, published_at, body, other) ==
    [t |-> "object", tag_name |-> tag_name, name |-> name, html_url |-> html_url,
     published_at |-> published_at, body |-> body, other |-> other]
\* A body response.json() cannot decode, and one served with another
\* content type than JSON
MalformedJson == [t |-> "malformed"]
WrongContentType == [t |-> "wrong_content_type"]
NoBody == [t |-> "nobody"]

EmptyObject == JObject(Absent, Absent, Absent, Absent, Absent, FALSE)

\* Mutant of NotTruthy: `data is None` in place of `not data`
NotTruthy_none_only(data) == data.t = "null"

\* `not data`
NotTruthy(data) ==
    \/ data.t = "null"
    \/ data.t = "array" /\ data.len = 0
    \/ /\ data.t = "object"
       /\ data.tag_name = Absent /\ data.name = Absent /\ data.html_url = Absent
       /\ data.published_at = Absent /\ data.body = Absent /\ ~data.other

\* Mutant of DictGet: the default is returned whatever the dict holds
DictGet_default(value, default) == default

\* Mutant of DictGet: data.get(key), with no default
DictGet_none(value, default) == IF value = Absent THEN None ELSE value

\* dict.get(key, default), given the key's value in the dict
DictGet(value, default) == IF value = Absent THEN default ELSE value

\* The tag_name values of the release objects the API serves
TagValues ==
    { Absent, None,
      Str(<<"1">>), Str(<<"v", "1", ".", "0">>), Str(<<"0", ".", "9">>),
      Str(<<"2">>), Str(<<"1", "x">>), Str(<<BigDigits>>), Str(<<>>) }

\* BotData.VERSION as the host sets it ("0.9" in core/config.py)
Versions ==
    { Str(<<"0", ".", "9">>), Str(<<"1">>), Str(<<"V", "-", "2">>), Str(<<"x">>) }

\* A release object with every field present ("d" stands for a published_at
\* text that is no ISO date)
FullObject ==
    JObject(Str(<<"2">>), Str(<<"n">>), Str(<<"h">>), Str(<<"d">>), Str(<<"b">>), TRUE)

ReleaseObjects ==
    { JObject(tag, name, Absent, Absent, Absent, TRUE) :
        tag \in TagValues, name \in {Absent, Str(<<"n">>)} }
    \cup {FullObject}

\* The bodies of 200 responses
Bodies ==
    ReleaseObjects \cup
    {EmptyObject, JNull, JArray(0), JArray(1), MalformedJson, WrongContentType}

\* What one attempt meets: a timeout, a connection error, another exception,
\* or a response with a status (and, for 200, a body)
Outcome(kind, status, body) == [kind |-> kind, status |-> status, body |-> body]
Statuses == {404, 403, 500}
Outcomes ==
    {Outcome("timeout", 0, NoBody), Outcome("client_error", 0, NoBody),
     Outcome("exception", 0, NoBody)}
    \cup {Outcome("response", st, NoBody) : st \in Statuses}
    \cup {Outcome("response", 200, b) : b \in Bodies}

\* The body of the try block of one attempt, from session.get on:
\* [t |-> "return", data] or [t |-> "raise", exc]
Return(value) == [t |-> "return", value |-> value, exc |-> None]
Raise(exc) == [t |-> "raise", value |-> None, exc |-> exc]

AttemptBody(o) ==
    IF o.kind = "timeout" THEN Raise(OtherError("TimeoutError"))
    ELSE IF o.kind = "client_error" THEN Raise(OtherError("ClientError"))
    ELSE IF o.kind = "exception" THEN Raise(OtherError("RuntimeError"))
    ELSE IF o.kind = "cancelled" THEN Raise(OtherError("CancelledError"))
    ELSE IF o.status = 200
         THEN IF o.body = MalformedJson THEN Raise(OtherError("JSONDecodeError"))
              ELSE IF o.body = WrongContentType THEN Raise(OtherError("ContentTypeError"))
              ELSE Return(o.body)
    ELSE IF o.status = 404
         THEN Raise(GitHubAPIError(Msg("Repository not found or no releases available (HTTP 404)", <<>>)))
    ELSE IF o.status = 403
         THEN Raise(GitHubAPIError(Msg("API rate limit exceeded (HTTP 403)", <<>>)))
    ELSE Raise(GitHubAPIError(Msg("HTTP status", <<[t |-> "int", n |-> o.status]>>)))

\* isinstance(exc, asyncio.TimeoutError), isinstance(exc, aiohttp.ClientError)
IsTimeoutError(exc) == exc.t = "TimeoutError"
IsClientError(exc) == exc.t \in {"ClientError", "ContentTypeError"}

\* The except clauses of the retry loop, in order: the value last_exception
\* gets when the try block raised exc.  Every exception is an Exception, so
\* the third clause takes whatever the first two leave.
ExceptClauses(exc) ==
    IF IsTimeoutError(exc) THEN GitHubAPIError(Msg("Request timeout", <<>>))
    ELSE IF IsClientError(exc) THEN GitHubAPIError(Msg("Network error", <<exc.msg>>))
    ELSE GitHubAPIError(Msg("Unexpected error", <<exc.msg>>))

\* Mutant of Captured: the first error is kept, later ones are dropped
Captured_keeps_first(last_exception, exc) ==
    IF last_exception.t = "none" THEN ExceptClauses(exc) ELSE last_exception

\* last_exception = GitHubAPIError(...) in whichever clause caught exc: the
\* new value replaces the one an earlier attempt left
Captured(last_exception, exc) == ExceptClauses(exc)

\* 2**attempt
RECURSIVE Pow2(_)
Pow2(n) == IF n = 0 THEN 1 ELSE 2 * Pow2(n - 1)
\* Mutant of BackoffSeconds: 2 * attempt in place of 2 ** attempt
BackoffSeconds_linear(attempt) == 2 * attempt
BackoffSeconds(attempt) == Pow2(attempt)

\* if attempt < self.max_retries - 1
SleepsAfter(attempt, max_retries) == attempt < max_retries - 1

\* ------------------------------------------------------------ fetcher tail
Pending == [t |-> "pending", value |-> None, exc |-> None]

\* GitHubReleaseChecker.get_latest_release, from the point where
\* _fetch_with_retry has returned data or raised: what it returns or raises
get_latest_release(fetch) ==
    IF fetch.t = "raise"
    THEN IF fetch.exc.t = "GitHubAPIError" THEN Raise(fetch.exc)
         ELSE Raise(GitHubAPIError(Msg("Failed to parse release data", <<fetch.exc.msg>>)))
    ELSE LET data == fetch.value
         IN  IF NotTruthy(data) THEN Return(None)
             ELSE IF data.t = "object"
             THEN Return(ReleaseInfo(DictGet(data.tag_name, Unknown),
                                     DictGet(data.name, Empty),
                                     DictGet(data.html_url, Empty),
                                     DictGet(data.published_at, Empty),
                                     DictGet(data.body, Empty)))
             \* data.get on a value that is no dict: AttributeError, wrapped
             ELSE Raise(GitHubAPIError(Msg("Failed to parse release data",
                                           <<OtherError("AttributeError").msg>>)))

\* Mutant of check_for_updates: the comparison step is skipped, a fetched
\* release is reported as the current one
check_for_updates_skips_compare(release, VERSION) ==
    IF release.t = "return"
    THEN IF release.value.t = "none"
         THEN VersionComparison(FETCH_FAILED,
                  Msg("Failed to fetch release information from GitHub", <<>>),
                  VERSION, Unknown, Empty, Empty, None)
         ELSE VersionComparison(UP_TO_DATE, Msg("up_to_date", <<VERSION>>),
                  VERSION, release.value.tag_name,
                  Str(_normalize_version(VERSION)),
                  Str(_normalize_version(release.value.tag_name)), release.value)
    ELSE VersionComparison(ERROR, Msg("GitHub API error", <<release.exc.msg>>),
                           VERSION, Unknown, Empty, Empty, None)

\* Mutant of check_for_updates: no except clause, the error propagates
check_for_updates_propagates(release, VERSION) ==
    IF release.t = "return"
    THEN IF release.value.t = "none"
         THEN VersionComparison(FETCH_FAILED,
                  Msg("Failed to fetch release information from GitHub", <<>>),
                  VERSION, Unknown, Empty, Empty, None)
         ELSE compare_versions(VERSION, release.value)
    ELSE release.exc

\* GitHubReleaseChecker.check_for_updates, from the point where
\* get_latest_release has returned or raised; VERSION is BotData.VERSION
check_for_updates(release, VERSION) ==
    IF release.t = "return"
    THEN IF release.value.t = "none"
         THEN VersionComparison(FETCH_FAILED,
                  Msg("Failed to fetch release information from GitHub", <<>>),
                  VERSION, Unknown, Empty, Empty, None)
         ELSE compare_versions(VERSION, release.value)
    ELSE IF release.exc.t = "GitHubAPIError"
    THEN VersionComparison(ERROR, Msg("GitHub API error", <<release.exc.msg>>),
                           VERSION, Unknown, Empty, Empty, None)
    ELSE VersionComparison(ERROR, Msg("Unexpected error", <<release.exc.msg>>),
                           VERSION, Unknown, Empty, Empty, None)

\* ------------------------------------------------------------------- state
\* inv[i] is one update check: the checker object it constructs (REPO_URL as
\* configured, repo_url, api_url, max_retries), the locals of its
\* _fetch_with_retry (attempt, last_exception), where it is suspended (pc), and
\* what it did so far: the requests issued, what each attempt met (outcomes),
\* the backoff sleeps started (sleeps), the sessions it holds open, how
\* _fetch_with_retry (fetch) and get_latest_release (release) ended, whether
\* compare_versions ran, the VersionComparison returned (result) and the
\* exception the constructor raised (raised); whether its caller cancelled it
\* (cancel_requested), what check_bot_updates printed, and the times of the
\* timeout (self.timeout.total, the seconds passed since the check started,
\* the start of the attempt in flight, how long each ended attempt took).
\*
\* calls is the log of direct calls of the checker's pure methods
\* (_convert_to_api_url, _normalize_version, compare_versions): each entry is
\* the method, its arguments and what it returned or raised.
\*
\* tree is one MentionTree: its application_commands and cache dicts, its
\* fallback_to_global setting, and the coroutines running on it (tasks), each
\* idle or suspended in an await of the method it runs.
VARIABLES inv, calls, tree
vars == <<inv, calls, tree>>

\* The scopes of a MentionTree: None (the global commands) and the guild ids
GlobalScope == "None"
Guilds == {"g"}
Scopes == {GlobalScope} \cup Guilds
\* The coroutines that use the tree at the same time
Tasks == {"t1", "t2"}
\* A dict has no such key
Missing == [t |-> "missing"]
IdleTask == [pc |-> "idle", guild |-> GlobalScope, command |-> None, result |-> None]

\* MentionTree.__init__: both dicts are empty
NewTree(fallback_to_global) ==
    [application_commands |-> [g \in Scopes |-> Missing],
     cache |-> [g \in Scopes |-> Missing],
     fallback_to_global |-> fallback_to_global,
     tasks |-> [t \in Tasks |-> IdleTask]]

NewInvocation ==
    [pc |-> "init", REPO_URL |-> None, repo_url |-> None, api_url |-> None,
     max_retries |-> 0, attempt |-> 0, last_exception |-> None,
     requests |-> 0, outcomes |-> <<>>, sleeps |-> <<>>, open_sessions |-> 0,
     fetch |-> Pending, release |-> Pending, compared |-> FALSE,
     result |-> None, raised |-> None,
     cancel_requested |-> FALSE, printed |-> <<>>,
     timeout |-> 0, now |-> 0, started |-> 0, durations |-> <<>>]

\* GitHubReleaseChecker.__init__ on the invocation record s
__init__(s, REPO_URL, max_retries) ==
    IF ~IsStr(REPO_URL)
    THEN [s EXCEPT !.pc = "ctor_raised", !.REPO_URL = REPO_URL,
                   !.raised = OtherError("AttributeError")]
    ELSE LET repo_url == RStripSlash(REPO_URL.s)
             api      == _convert_to_api_url(repo_url)
         IN  IF api.ok
             THEN [s EXCEPT !.pc = "ready", !.REPO_URL = REPO_URL,
                            !.repo_url = Str(repo_url), !.api_url = api.url,
                            !.max_retries = max_retries]
             ELSE [s EXCEPT !.pc = "ctor_raised", !.REPO_URL = REPO_URL,
                            !.repo_url = Str(repo_url), !.raised = api.exc]

\* _fetch_with_retry has ended with `fetch`: get_latest_release and
\* check_for_updates run to their end without suspending
Finish(s, fetch, VERSION) ==
    LET release == get_latest_release(fetch)
    IN  [s EXCEPT !.pc = "returned", !.fetch = fetch, !.release = release,
                  !.compared = (release.t = "return" /\ release.value.t # "none"),
                  !.result = check_for_updates(release, VERSION)]

\* Mutant of AfterLoop: with no error captured the fetcher returns None
AfterLoop_returns_none(s) ==
    IF s.last_exception.t # "none" THEN Raise(s.last_exception)
    ELSE Return(JNull)

\* The statements after the for loop of _fetch_with_retry
AfterLoop(s) ==
    IF s.last_exception.t # "none" THEN Raise(s.last_exception)
    ELSE Raise(GitHubAPIError(Msg("All retry attempts failed", <<>>)))

\* Mutant of LoopHead: range(self.max_retries + 1)
LoopHead_off_by_one(s, VERSION) ==
    IF s.attempt <= s.max_retries
    THEN [s EXCEPT !.pc = "inflight", !.requests = @ + 1, !.open_sessions = @ + 1]
    ELSE Finish(s, AfterLoop(s), VERSION)

\* for attempt in range(self.max_retries): with s.attempt the next value, either
\* the body starts (a session is opened, the GET is issued and awaited) or the
\* loop is over
LoopHead(s, VERSION) ==
    IF s.attempt < s.max_retries
    THEN [s EXCEPT !.pc = "inflight", !.requests = @ + 1, !.open_sessions = @ + 1]
    ELSE Finish(s, AfterLoop(s), VERSION)

\* Mutant of AttemptEnds: the session is closed at the end of the try block
\* only, so an attempt that raises leaves its session open
AttemptEnds_leaks_on_error(s, o, VERSION) ==
    LET body   == AttemptBody(o)
        ended  == [s EXCEPT !.outcomes = Append(@, o)]
    IN  IF body.t = "return"
        THEN Finish([ended EXCEPT !.open_sessions = @ - 1], body, VERSION)
        ELSE LET failed == [ended EXCEPT !.last_exception = Captured(@, body.exc)]
             IN  IF SleepsAfter(s.attempt, s.max_retries)
                 THEN [failed EXCEPT !.pc = "sleeping",
                                     !.sleeps = Append(@, [attempt |-> s.attempt,
                                                           seconds |-> BackoffSeconds(s.attempt)])]
                 ELSE LoopHead([failed EXCEPT !.attempt = @ + 1], VERSION)

\* One attempt ends with outcome o: both `async with` blocks are left, the
\* try block returns or an except clause records the error, and then the
\* backoff sleep starts or the next iteration follows at once
AttemptEnds(s, o, VERSION) ==
    LET body   == AttemptBody(o)
        closed == [s EXCEPT !.open_sessions = @ - 1, !.outcomes = Append(@, o)]
    IN  IF body.t = "return" THEN Finish(closed, body, VERSION)
        ELSE LET failed == [closed EXCEPT !.last_exception = Captured(@, body.exc)]
             IN  IF SleepsAfter(s.attempt, s.max_retries)
                 THEN [failed EXCEPT !.pc = "sleeping",
                                     !.sleeps = Append(@, [attempt |-> s.attempt,
                                                           seconds |-> BackoffSeconds(s.attempt)])]
                 ELSE LoopHead([failed EXCEPT !.attempt = @ + 1], VERSION)

\* ----------------------------------------------------------------- actions
\* check_bot_updates constructs the checker: GitHubReleaseChecker(...)
Construct(i) ==
    /\ inv[i].pc = "init"
    /\ \E REPO_URL \in RepoUrls, max_retries \in 0..MaxRetriesBound :
          inv' = [inv EXCEPT ![i] = __init__(@, REPO_URL, max_retries)]
    /\ UNCHANGED <<calls, tree>>

\* await checker.check_for_updates(): runs to the first request (or to the end)
CheckForUpdates(i) ==
    /\ inv[i].pc = "ready"
    /\ \E VERSION \in Versions :
          inv' = [inv EXCEPT ![i] =
                     LoopHead([@ EXCEPT !.attempt = 0, !.last_exception = None], VERSION)]
    /\ UNCHANGED <<calls, tree>>

\* The awaited request of invocation i completes
Respond(i) ==
    /\ inv[i].pc = "inflight"
    /\ \E o \in Outcomes, VERSION \in Versions :
          inv' = [inv EXCEPT ![i] = AttemptEnds(@, o, VERSION)]
    /\ UNCHANGED <<calls, tree>>

\* The backoff sleep of invocation i is over: the next iteration starts
Wake(i) ==
    /\ inv[i].pc = "sleeping"
    /\ \E VERSION \in Versions :
          inv' = [inv EXCEPT ![i] = LoopHead([@ EXCEPT !.attempt = @ + 1], VERSION)]
    /\ UNCHANGED <<calls, tree>>

Init ==
    /\ inv = [i \in Invocations |->
                 IF i = 1 THEN NewInvocation ELSE [NewInvocation EXCEPT !.pc = "off"]]
    /\ calls = <<>>
    /\ tree = NewTree(TRUE)

Next ==
    \E i \in Invocations :
        \/ Construct(i)
        \/ CheckForUpdates(i)
        \/ Respond(i)
        \/ Wake(i)

Spec == Init /\ [][Next]_vars

\* ----------------------------------------------------------------- the host
\* check_bot_updates awaits the check and prints what it returned; the task
\* that runs it may be cancelled by its caller while it is suspended.
\*
\* asyncio.CancelledError, thrown into the coroutine at its current await
CancelledError == OtherError("CancelledError")

\* Mutant of IsException: CancelledError derives from Exception
IsException_all(exc) == TRUE

\* Whether `except Exception` catches exc: CancelledError derives from
\* BaseException, every other exception met here from Exception
IsException(exc) == exc.t # "CancelledError"

\* The invocation is cancelled where it is suspended.  In flight, the
\* exception leaves both `async with` blocks (the session is closed) and
\* meets the except clauses of the retry loop; in the backoff sleep it meets
\* those of get_latest_release and check_for_updates; whatever they do not
\* catch leaves check_bot_updates too.
Cancelled(s, VERSION) ==
    IF IsException(CancelledError)
    THEN IF s.pc = "inflight"
         THEN AttemptEnds(s, Outcome("cancelled", 0, NoBody), VERSION)
         ELSE Finish(s, Raise(CancelledError), VERSION)
    ELSE [s EXCEPT !.pc = "cancelled", !.raised = CancelledError,
                   !.open_sessions = IF s.pc = "inflight" THEN @ - 1 ELSE @]

\* datetime.fromisoformat accepts the text ("d" stands for one it rejects)
IsIsoDate(text) == text.t = "str" /\ text.s # <<>> /\ IsDigit(text.s[1])

\* _format_date, on a str
_format_date(iso_date_string) ==
    IF Falsy(iso_date_string) THEN Msg("Unknown", <<>>)
    ELSE IF IsIsoDate(iso_date_string) THEN Msg("%m/%d/%Y", <<iso_date_string>>)
    ELSE Msg("Invalid Date", <<>>)

\* The lines check_bot_updates prints under "Print additional information"
ReleaseLines(release_info) ==
    IF release_info.t = "none" \/ Falsy(release_info.html_url) THEN <<>>
    ELSE <<Msg("Release URL", <<release_info.html_url>>)>>
         \o (IF Falsy(release_info.name) THEN <<>>
             ELSE <<Msg("Release Name", <<release_info.name>>)>>)
         \o (IF Falsy(release_info.published_at) THEN <<>>
             ELSE <<Msg("Published", <<_format_date(release_info.published_at)>>)>>)

\* The except clause of check_bot_updates
HostHandler(s, exc) ==
    IF IsException(exc)
    THEN [s EXCEPT !.pc = "done",
                   !.printed = Append(@, Msg("Failed to check for updates", <<exc.msg>>))]
    ELSE [s EXCEPT !.pc = "crashed"]

\* Mutant of check_bot_updates: no try block around the body
check_bot_updates_no_handler(s) ==
    IF s.pc = "ctor_raised" THEN [s EXCEPT !.pc = "crashed"]
    ELSE [s EXCEPT !.pc = "done",
                   !.printed = <<s.result.message>> \o ReleaseLines(s.result.release_info)]

\* check_bot_updates from the point where the constructor has raised or
\* check_for_updates has returned, to its end; printed holds the lines it
\* prints after "Checking for updates..."
check_bot_updates(s) ==
    IF s.pc = "ctor_raised" THEN HostHandler(s, s.raised)
    ELSE [s EXCEPT !.pc = "done",
                   !.printed = <<s.result.message>> \o ReleaseLines(s.result.release_info)]

\* The caller cancels invocation i while it awaits a response or sleeps
Cancel(i) ==
    /\ inv[i].pc \in {"inflight", "sleeping"}
    /\ \E VERSION \in Versions :
          inv' = [inv EXCEPT ![i] = [Cancelled(@, VERSION) EXCEPT !.cancel_requested = TRUE]]
    /\ UNCHANGED <<calls, tree>>

\* check_bot_updates of invocation i runs to its end
Report(i) ==
    /\ inv[i].pc \in {"ctor_raised", "returned"}
    /\ inv' = [inv EXCEPT ![i] = check_bot_updates(@)]
    /\ UNCHANGED <<calls, tree>>

HostNext ==
    \/ Next
    \/ \E i \in Invocations : Cancel(i)
    \/ \E i \in Invocations : Report(i)

HostSpec == Init /\ [][HostNext]_vars

\* ------------------------------------------------------------------ timeout
\* The check with its clock: every attempt opens a new ClientSession with
\* timeout=self.timeout (ClientTimeout(total=timeout)), whose timer runs from
\* the request of that session; asyncio.TimeoutError is raised when it
\* expires.  now counts the seconds since the check started, started is the
\* time the request in flight was issued, durations the time each ended
\* attempt took.
\* BotData.VERSION as the host sets it
TimedVersions == { Str(<<"0", ".", "9">>), Str(<<"2">>) }
TimedOutcomes ==
    { Outcome("timeout", 0, NoBody),
      Outcome("client_error", 0, NoBody),
      Outcome("response", 404, NoBody),
      Outcome("response", 200, FullObject) }

\* Mutant of AttemptDeadline: one timer for the whole check
AttemptDeadline_cumulative(s) == s.timeout

\* The time at which the request in flight times out
AttemptDeadline(s) == s.started + s.timeout

\* GitHubReleaseChecker(timeout=...) of invocation i
TimedConstruct(i) ==
    /\ inv[i].pc = "init"
    /\ \E max_retries \in 1..MaxRetriesBound, timeout \in 1..MaxTimeout :
          inv' = [inv EXCEPT ![i] =
                     [__init__(@, Str(<<"a", "/", "b">>), max_retries)
                         EXCEPT !.timeout = timeout]]
    /\ UNCHANGED <<calls, tree>>

\* await checker.check_for_updates(): the first request is issued
TimedCheckForUpdates(i) ==
    /\ inv[i].pc = "ready"
    /\ \E VERSION \in TimedVersions :
          inv' = [inv EXCEPT ![i] =
                     LoopHead([@ EXCEPT !.attempt = 0, !.last_exception = None,
                                        !.started = inv[i].now], VERSION)]
    /\ UNCHANGED <<calls, tree>>

\* A second passes while the request of invocation i is in flight
TimedTick(i) ==
    /\ inv[i].pc = "inflight"
    /\ inv[i].now < AttemptDeadline(inv[i])
    /\ inv' = [inv EXCEPT ![i].now = @ + 1]
    /\ UNCHANGED <<calls, tree>>

\* The request of invocation i ends: with a timeout when its timer has
\* expired, with anything else before that
TimedRespond(i) ==
    /\ inv[i].pc = "inflight"
    /\ \E o \in TimedOutcomes, VERSION \in TimedVersions :
          /\ (o.kind = "timeout") <=> (inv[i].now >= AttemptDeadline(inv[i]))
          /\ inv' = [inv EXCEPT ![i] =
                        [AttemptEnds(@, o, VERSION)
                            EXCEPT !.durations = Append(@, inv[i].now - inv[i].started)]]
    /\ UNCHANGED <<calls, tree>>

\* The backoff sleep of invocation i is over after its seconds: the next
\* request is issued
TimedWake(i) ==
    /\ inv[i].pc = "sleeping"
    /\ \E VERSION \in TimedVersions :
          LET woken == inv[i].now + inv[i].sleeps[Len(inv[i].sleeps)].seconds
          IN  inv' = [inv EXCEPT ![i] =
                         LoopHead([@ EXCEPT !.attempt = @ + 1, !.now = woken,
                                            !.started = woken], VERSION)]
    /\ UNCHANGED <<calls, tree>>

TimedNext ==
    \E i \in Invocations :
        \/ TimedConstruct(i)
        \/ TimedCheckForUpdates(i)
        \/ TimedTick(i)
        \/ TimedRespond(i)
        \/ TimedWake(i)

TimedSpec == Init /\ [][TimedNext]_vars

\* ------------------------------------------------- concurrent invocations
\* Several update checks at once (check_bot_updates awaited by several
\* tasks of one event loop): every invocation constructs its own checker and
\* takes the steps above, in any interleaving.  What the invocations meet is
\* drawn from these sets.
ConcRepoUrls == { Str(<<"a", "/", "b">>), Str(<<"a", " ", "b">>) }
ConcRetries == {1, 2}
ConcVersions == { Str(<<"0", ".", "9">>), Str(<<"1">>) }
ConcOutcomes ==
    { Outcome("timeout", 0, NoBody),
      Outcome("response", 404, NoBody),
      Outcome("response", 200, JObject(Str(<<"1">>), Absent, Absent, Absent, Absent, TRUE)),
      Outcome("response", 200, EmptyObject) }

\* GitHubReleaseChecker(...) of invocation i
ConcConstruct(i) ==
    /\ inv[i].pc = "init"
    /\ \E REPO_URL \in ConcRepoUrls, max_retries \in ConcRetries :
          inv' = [inv EXCEPT ![i] = __init__(@, REPO_URL, max_retries)]
    /\ UNCHANGED <<calls, tree>>

\* Mutant of ConcCheckForUpdates: the result of an invocation that has
\* returned is kept and handed to the next caller in place of a fetch
ConcCheckForUpdates_cached(i) ==
    /\ inv[i].pc = "ready"
    /\ \E VERSION \in ConcVersions :
          inv' = [inv EXCEPT ![i] =
                     IF \E j \in Invocations : inv[j].pc = "returned"
                     THEN [@ EXCEPT !.pc = "returned",
                                    !.result = inv[CHOOSE j \in Invocations :
                                                       inv[j].pc = "returned"].result]
                     ELSE LoopHead([@ EXCEPT !.attempt = 0, !.last_exception = None],
                                   VERSION)]
    /\ UNCHANGED <<calls, tree>>

\* await checker.check_for_updates() of invocation i, to its first await
ConcCheckForUpdates(i) ==
    /\ inv[i].pc = "ready"
    /\ \E VERSION \in ConcVersions :
          inv' = [inv EXCEPT ![i] =
                     LoopHead([@ EXCEPT !.attempt = 0, !.last_exception = None], VERSION)]
    /\ UNCHANGED <<calls, tree>>

\* The awaited request of invocation i completes
ConcRespond(i) ==
    /\ inv[i].pc = "inflight"
    /\ \E o \in ConcOutcomes, VERSION \in ConcVersions :
          inv' = [inv EXCEPT ![i] = AttemptEnds(@, o, VERSION)]
    /\ UNCHANGED <<calls, tree>>

\* The backoff sleep of invocation i is over
ConcWake(i) ==
    /\ inv[i].pc = "sleeping"
    /\ \E VERSION \in ConcVersions :
          inv' = [inv EXCEPT ![i] = LoopHead([@ EXCEPT !.attempt = @ + 1], VERSION)]
    /\ UNCHANGED <<calls, tree>>

ConcInit ==
    /\ inv = [i \in Invocations |-> NewInvocation]
    /\ calls = <<>>
    /\ tree = NewTree(TRUE)

ConcNext ==
    \E i \in Invocations :
        \/ ConcConstruct(i)
        \/ ConcCheckForUpdates(i)
        \/ ConcRespond(i)
        \/ ConcWake(i)

ConcSpec == ConcInit /\ [][ConcNext]_vars

\* ------------------------------------------------------ direct method calls
\* The pure methods of a checker called directly, one call after another.

\* Most calls one log records
MaxCalls == 3

\* The parts of a string joined: "".join(parts)
RECURSIVE Concat(_)
Concat(parts) == IF parts = <<>> THEN <<>> ELSE parts[1] \o Concat(Tail(parts))

\* repo_url arguments of _convert_to_api_url: a prefix, an owner, a separator,
\* a repository name and a suffix (tokens as in RepoChars)
RepoPrefixes ==
    { <<>>,
      <<"h", ":", "/", "/", "G", "/">>,
      <<"h", ":", "/", "/", "G", ":">>,
      <<"G", "/">>,
      <<"h", ":", "/", "/">> }
RepoNames == { <<"a">>, <<"b">>, <<"a", " ", "b">>, <<"a", "T">>, <<>> }
RepoSeparators == { <<"/">>, <<" ">> }
RepoSuffixes == { <<>>, <<"T">>, <<"/">>, <<"T", "/">>, <<"/", "a">>, <<"/", "/">> }
ResolverInputs ==
    { Concat(<<pre, owner, sep, repo, suf>>) :
        pre \in RepoPrefixes, owner \in RepoNames, sep \in RepoSeparators,
        repo \in RepoNames, suf \in RepoSuffixes }

\* version_str arguments of _normalize_version: padding, a label or a text
\* that looks like one, separators, other text, the version text, padding;
\* and two arguments that are no str
LabelTexts ==
    { <<>>, <<"v">>, <<"V">>,
      <<"v", "e", "r", "s", "i", "o", "n">>, <<"V", "e", "r", "s", "i", "o", "n">>,
      <<"r", "e", "l", "e", "a", "s", "e">>, <<"t", "a", "g">>, <<"T", "A", "G">>,
      <<"v", "e", "r">> }
SeparatorTexts == { <<>>, <<" ">>, <<"-">>, <<"_">>, <<"-", " ">>, <<".">> }
OtherTexts == { <<>>, <<"x">>, <<"g", "a", "r", "b", "a", "g", "e">> }
VersionTexts ==
    { <<>>, <<"1", ".", "2", ".", "3">>, <<"2", ".", "0">>, <<"1">>,
      <<"1", ".", "0", "-", "x">>, <<"1", " ", "v", "2">>, <<BigDigits>> }
Paddings == { <<>>, <<" ">> }
NormalizerInputs ==
    { Str(Concat(<<lpad, label, sep, other, text, rpad>>)) :
        lpad \in Paddings, label \in LabelTexts, sep \in SeparatorTexts,
        other \in OtherTexts, text \in VersionTexts, rpad \in Paddings }
    \cup {None, [t |-> "int", n |-> 1]}

\* current_version and release_info arguments of compare_versions
CurrentVersions ==
    { Str(<<"1", ".", "0", ".", "0">>), Str(<<"0", ".", "9", ".", "0">>),
      Str(<<"2", ".", "0", ".", "0">>), Str(<<"x", "x", "x">>), Str(<<>>),
      Str(<<"v", "1", ".", "0">>), Str(<<"1">>), Str(<<"1", "x">>),
      Str(<<"1", "-", "1">>), Str(<<BigDigits>>), Str(<<" ", "1", ".", "0", " ">>) }
TagNames ==
    { Str(<<"v", "1", ".", "0", ".", "0">>), Str(<<"1", ".", "0", ".", "0">>),
      Str(<<"1", ".", "5", ".", "0">>), Str(<<"1">>), Str(<<"0", ".", "9">>),
      Str(<<"2", "x">>), Str(<<"1", "_", "0">>), Str(<<>>), None, Unknown,
      Str(<<BigDigits>>) }
Releases ==
    { ReleaseInfo(tag, name, Empty, Empty, Empty) :
        tag \in TagNames, name \in {Empty, Str(<<"n">>)} }

\* The arguments of the calls of a log that holds several calls
RepeatVersions == { Str(<<"1", ".", "0", ".", "0">>), Str(<<"2", ".", "0", ".", "0">>) }
RepeatReleases ==
    { ReleaseInfo(tag, Empty, Empty, Empty, Empty) :
        tag \in { Str(<<"v", "1", ".", "0", ".", "0">>),
                  Str(<<"1", ".", "5", ".", "0">>), Str(<<"2", "x">>) } }

\* One entry of the log
Call(op, args, result) == [op |-> op, args |-> args, result |-> result]

\* The compare_versions calls of a log, in order
CompareCalls(history) == SelectSeq(history, LAMBDA c : c.op = "compare_versions")

\* Mutant of CompareCall: the result computed for the previous call is kept
\* on the checker and returned by the next call
CompareCall_stale(history, current_version, release_info) ==
    IF CompareCalls(history) = <<>> THEN compare_versions(current_version, release_info)
    ELSE LET prev == CompareCalls(history)[Len(CompareCalls(history))]
         IN  compare_versions(prev.args[1], prev.args[2])

\* checker.compare_versions(current_version, release_info) after the calls of
\* history: the method reads and writes nothing but its arguments
CompareCall(history, current_version, release_info) ==
    compare_versions(current_version, release_info)

\* checker._convert_to_api_url(repo_url)
Resolve(inputs, depth) ==
    /\ Len(calls) < depth
    /\ \E repo_url \in inputs :
          calls' = Append(calls, Call("_convert_to_api_url", <<Str(repo_url)>>,
                                      _convert_to_api_url(repo_url)))
    /\ UNCHANGED <<inv, tree>>

\* checker._normalize_version(version_str)
Normalize(inputs, depth) ==
    /\ Len(calls) < depth
    /\ \E version_str \in inputs :
          calls' = Append(calls, Call("_normalize_version", <<version_str>>,
                                      Str(_normalize_version(version_str))))
    /\ UNCHANGED <<inv, tree>>

\* checker.compare_versions(current_version, release_info)
Compare(versions, releases, depth) ==
    /\ Len(calls) < depth
    /\ \E current_version \in versions, release_info \in releases :
          calls' = Append(calls, Call("compare_versions",
                                      <<current_version, release_info>>,
                                      CompareCall(calls, current_version, release_info)))
    /\ UNCHANGED <<inv, tree>>

\* No update check runs; the log is empty
CallInit ==
    /\ inv = [i \in Invocations |-> [NewInvocation EXCEPT !.pc = "off"]]
    /\ calls = <<>>
    /\ tree = NewTree(TRUE)

\* One call, with any of its arguments
CallNext ==
    \/ Resolve(ResolverInputs, 1)
    \/ Normalize(NormalizerInputs, 1)
    \/ Compare(CurrentVersions, Releases, 1)

CallSpec == CallInit /\ [][CallNext]_vars

\* Up to MaxCalls calls in any order
RepeatNext ==
    \/ Resolve({<<"a", "/", "b">>}, MaxCalls)
    \/ Normalize({Str(<<"v", "1">>)}, MaxCalls)
    \/ Compare(RepeatVersions, RepeatReleases, MaxCalls)

RepeatSpec == CallInit /\ [][RepeatNext]_vars

\* Release notes of the lengths around the cut of truncated_body; the
\* characters differ by position
BodyLengths == {0, 1, 499, 500, 501, 502, 600}
BodyOfLength(n) == [k \in 1..n |-> IF k % 3 = 0 THEN "." ELSE IF k % 3 = 1 THEN "a" ELSE "b"]

\* release_info.truncated_body
Truncate(lengths, depth) ==
    /\ Len(calls) < depth
    /\ \E n \in lengths :
          calls' = Append(calls, Call("truncated_body", <<Str(BodyOfLength(n))>>,
                                      Str(truncated_body(BodyOfLength(n)))))
    /\ UNCHANGED <<inv, tree>>

\* checker._normalize_version(r), r the string the previous call returned
NormalizeAgain(depth) ==
    /\ calls # <<>>
    /\ Len(calls) < depth
    /\ calls[Len(calls)].op = "_normalize_version"
    /\ calls' = Append(calls, Call("_normalize_version", <<calls[Len(calls)].result>>,
                                    Str(_normalize_version(calls[Len(calls)].result))))
    /\ UNCHANGED <<inv, tree>>

\* A value is derived from a release or a version string, and a normalized
\* string is normalized again
DataNext ==
    \/ Truncate(BodyLengths, 1)
    \/ Normalize(NormalizerInputs, 1)
    \/ NormalizeAgain(2)

DataSpec == CallInit /\ [][DataNext]_vars

\* ------------------------------------------------------------ mention tree
\* MentionTree keeps, per scope, the list of AppCommands the API returned
\* last (application_commands) and the mentions already built (cache).  Its
\* coroutines suspend only where they await the API: in super().sync and
\* super().fetch_commands.
\*
\* The commands of the bot, and the ids the API gives them (a command that
\* is registered anew gets a new id)
CommandNames == {"c"}
CommandIds == {1, 2}
AppCommand(name, id) == [name |-> name, id |-> id]
\* What the API returns for a scope: a list with at most one command per name
CommandLists ==
    {<<>>} \cup {<<AppCommand(name, id)>> : name \in CommandNames, id \in CommandIds}
\* The command argument of find_mention_for: a Command object or its name
CommandArgs == [kind : {"Command", "str"}, name : CommandNames]

\* A stored list of AppCommands, and the dict of the mentions of one scope
\* (a command without a mention maps to Missing)
Stored(commands) == [t |-> "list", commands |-> commands]
Mentions(entries) == [t |-> "dict", entries |-> entries]

\* discord.utils.get(commands, name=name): the first match or None
UtilsGet(commands, name) ==
    LET hits == {k \in 1..Len(commands) : commands[k].name = name}
    IN  IF hits = {} THEN None
        ELSE [t |-> "AppCommand", name |-> commands[Min(hits)].name,
              id |-> commands[Min(hits)].id]

\* The coroutine t returns value (of find_mention_for: the mention or None)
TaskReturns(tr, t, value) ==
    [tr EXCEPT !.tasks[t] = [IdleTask EXCEPT !.result = value]]

\* The coroutine t awaits the API in the state pc
TaskAwaits(tr, t, pc, guild_id, command) ==
    [tr EXCEPT !.tasks[t] = [pc |-> pc, guild |-> guild_id, command |-> command,
                             result |-> None]]

\* The statements of sync and of fetch_commands after the await:
\* application_commands[guild_id] = ret; cache.pop(guild_id, None)
Replace(tr, guild_id, ret) ==
    [tr EXCEPT !.application_commands[guild_id] = Stored(ret),
               !.cache[guild_id] = Missing]

\* find_mention_for from the mention on: cache.setdefault(guild_id, {});
\* cache[guild_id][command] = mention; return mention
StoreMention(tr, t, guild_id, command, app_command_found) ==
    LET mention == [t |-> "mention", qualified_name |-> command.name,
                    id |-> app_command_found.id]
        entries == IF tr.cache[guild_id] = Missing
                   THEN [c \in CommandArgs |-> Missing]
                   ELSE tr.cache[guild_id].entries
    IN  TaskReturns([tr EXCEPT !.cache[guild_id] =
                                   Mentions([entries EXCEPT ![command] = mention])],
                    t, mention)

\* find_mention_for once get_or_fetch_commands(guild=None) has returned
AfterGlobal(tr, t, guild_id, command, global_commands) ==
    IF UtilsGet(global_commands, command.name) = None THEN TaskReturns(tr, t, None)
    ELSE StoreMention(tr, t, guild_id, command, UtilsGet(global_commands, command.name))

\* find_mention_for once get_or_fetch_commands(guild=guild) has returned;
\* get_or_fetch_commands(guild=None) returns at once when the global list
\* is stored and awaits fetch_commands otherwise
AfterLocal(tr, t, guild_id, command, local_commands) ==
    LET check_global == tr.fallback_to_global /\ guild_id # GlobalScope
    IN  IF UtilsGet(local_commands, command.name) # None
        THEN StoreMention(tr, t, guild_id, command, UtilsGet(local_commands, command.name))
        ELSE IF ~check_global THEN TaskReturns(tr, t, None)
        ELSE IF tr.application_commands[GlobalScope] # Missing
        THEN AfterGlobal(tr, t, guild_id, command,
                         tr.application_commands[GlobalScope].commands)
        ELSE TaskAwaits(tr, t, "find_global", guild_id, command)

\* find_mention_for(command, guild=guild) up to its first await or its end;
\* registered: discord.utils.get finds a command of that name in the tree
find_mention_for(tr, t, command, guild_id, registered) ==
    IF tr.cache[guild_id] # Missing /\ tr.cache[guild_id].entries[command] # Missing
    THEN TaskReturns(tr, t, tr.cache[guild_id].entries[command])
    ELSE IF command.kind = "str" /\ ~registered THEN TaskReturns(tr, t, None)
    ELSE IF tr.application_commands[guild_id] # Missing
    THEN AfterLocal(tr, t, guild_id, command,
                    tr.application_commands[guild_id].commands)
    ELSE TaskAwaits(tr, t, "find_local", guild_id, command)

\* await tree.sync(guild=guild): up to the await of super().sync
Sync(t) ==
    /\ tree.tasks[t].pc = "idle"
    /\ \E guild_id \in Scopes : tree' = TaskAwaits(tree, t, "sync", guild_id, None)
    /\ UNCHANGED <<inv, calls>>

\* super().sync returns ret: the rest of sync
SyncReturns(t) ==
    /\ tree.tasks[t].pc = "sync"
    /\ \E ret \in CommandLists :
          tree' = TaskReturns(Replace(tree, tree.tasks[t].guild, ret), t, None)
    /\ UNCHANGED <<inv, calls>>

\* await tree.fetch_commands(guild=guild): up to the await of
\* super().fetch_commands
FetchCommands(t) ==
    /\ tree.tasks[t].pc = "idle"
    /\ \E guild_id \in Scopes : tree' = TaskAwaits(tree, t, "fetch", guild_id, None)
    /\ UNCHANGED <<inv, calls>>

\* super().fetch_commands returns ret: the rest of fetch_commands
FetchCommandsReturns(t) ==
    /\ tree.tasks[t].pc = "fetch"
    /\ \E ret \in CommandLists :
          tree' = TaskReturns(Replace(tree, tree.tasks[t].guild, ret), t, None)
    /\ UNCHANGED <<inv, calls>>

\* await tree.find_mention_for(command, guild=guild)
FindMentionFor(t) ==
    /\ tree.tasks[t].pc = "idle"
    /\ \E command \in CommandArgs, guild_id \in Scopes, registered \in BOOLEAN :
          tree' = find_mention_for(tree, t, command, guild_id, registered)
    /\ UNCHANGED <<inv, calls>>

\* The fetch_commands(guild=guild) that find_mention_for awaits through
\* get_or_fetch_commands returns ret
FindLocalFetched(t) ==
    /\ tree.tasks[t].pc = "find_local"
    /\ \E ret \in CommandLists :
          tree' = AfterLocal(Replace(tree, tree.tasks[t].guild, ret), t,
                             tree.tasks[t].guild, tree.tasks[t].command, ret)
    /\ UNCHANGED <<inv, calls>>

\* The fetch_commands(guild=None) that find_mention_for awaits for the
\* global fallback returns ret
FindGlobalFetched(t) ==
    /\ tree.tasks[t].pc = "find_global"
    /\ \E ret \in CommandLists :
          tree' = AfterGlobal(Replace(tree, GlobalScope, ret), t,
                              tree.tasks[t].guild, tree.tasks[t].command, ret)
    /\ UNCHANGED <<inv, calls>>

\* A tree with either setting of fallback_to_global, no update check
TreeInit ==
    /\ inv = [i \in Invocations |-> [NewInvocation EXCEPT !.pc = "off"]]
    /\ calls = <<>>
    /\ \E fallback_to_global \in BOOLEAN : tree = NewTree(fallback_to_global)

TreeNext ==
    \E t \in Tasks :
        \/ Sync(t)
        \/ SyncReturns(t)
        \/ FetchCommands(t)
        \/ FetchCommandsReturns(t)
        \/ FindMentionFor(t)
        \/ FindLocalFetched(t)
        \/ FindGlobalFetched(t)

TreeSpec == TreeInit /\ [][TreeNext]_vars

\* ------------------------------------------------------------ claim helpers
Entered(i) == inv[i].pc \in {"inflight", "sleeping", "returned"}
Returned(i) == inv[i].pc = "returned"

\* Attempt outcomes by what the claims call them
Transient(o) == o.kind \in {"timeout", "client_error"}
Non200(o) == o.kind = "response" /\ o.status # 200
Got200(o) == o.kind = "response" /\ o.status = 200
FalsyBodies == {JNull, EmptyObject, JArray(0)}
\* A 200 response whose body decodes to a JSON value
Decoded200(o) == Got200(o) /\ o.body \notin {MalformedJson, WrongContentType}

SecondsOf(sleeps) == [k \in 1..Len(sleeps) |-> sleeps[k].seconds]
RECURSIVE SumSeq(_)
SumSeq(q) == IF q = <<>> THEN 0 ELSE q[1] + SumSeq(Tail(q))

\* The steps an invocation has taken; every action adds to it
Work(s) ==
    s.requests + Len(s.outcomes) + Len(s.sleeps)
    + (IF s.pc \in {"init", "off"} THEN 0 ELSE 1)
    + (IF s.pc \in {"returned", "ctor_raised"} THEN 1 ELSE 0)
TotalWork == SumSeq([i \in Invocations |-> Work(inv[i])])

\* C1: check_for_updates never raises: once entered, the call has raised
\* nothing, and when it is over it has returned a VersionComparison whose
\* status is one of the six UpdateStatus values; until then it has returned
\* nothing and is within its attempt budget.
C1_Returns ==
    \A i \in Invocations :
        /\ Entered(i) => inv[i].raised.t = "none"
        /\ Returned(i) =>
              /\ inv[i].result.t = "VersionComparison"
              /\ inv[i].result.status \in UpdateStatus
        /\ inv[i].pc \in {"inflight", "sleeping"} =>
              /\ inv[i].result.t = "none"
              /\ Len(inv[i].outcomes) < inv[i].max_retries

C2_UnresolvableGivesError ==
    \A i \in Invocations :
        (/\ inv[i].pc \notin {"init", "off"}
         /\ IsStr(inv[i].REPO_URL)
         /\ ~_convert_to_api_url(RStripSlash(inv[i].REPO_URL.s)).ok)
        => /\ inv[i].requests = 0
           /\ inv[i].result.t = "VersionComparison"
           /\ inv[i].result.status = ERROR
           /\ inv[i].result.latest_version = Unknown

\* msg is the message inner, or embeds it as its one argument
EmbedsMsg(msg, inner) == msg = inner \/ msg.args = <<inner>>

\* C3: an attempt that receives a non-200 status is the last one: no further
\* request, no backoff sleep after it, and the fetcher raises that status
\* error to its caller.
C3_NoRetryAfterStatus ==
    \A i \in Invocations :
        \A k \in 1..Len(inv[i].outcomes) :
            Non200(inv[i].outcomes[k]) =>
                /\ Returned(i)
                /\ inv[i].requests = k
                /\ Len(inv[i].sleeps) < k
                /\ inv[i].fetch.t = "raise"
                /\ inv[i].fetch.exc.t = "GitHubAPIError"
                /\ EmbedsMsg(inv[i].fetch.exc.msg, AttemptBody(inv[i].outcomes[k]).exc.msg)

\* The ReleaseInfo fields a JSON object fixes: each key it has is copied
BuiltFrom(release, body) ==
    /\ release.t = "ReleaseInfo"
    /\ body.tag_name # Absent => release.tag_name = body.tag_name
    /\ body.name # Absent => release.name = body.name

\* k transient failures and then a 200 whose body is a JSON object
FailuresThenObject(s) ==
    /\ s.pc = "returned"
    /\ s.outcomes # <<>>
    /\ \A k \in 1..(Len(s.outcomes) - 1) : Transient(s.outcomes[k])
    /\ Got200(s.outcomes[Len(s.outcomes)])
    /\ s.outcomes[Len(s.outcomes)].body.t = "object"

\* C4 as stated: k transient failures (k < max_retries) and then a 200 with a
\* JSON object give exactly k+1 requests and the ReleaseInfo built from it.
C4_AnyObject ==
    \A i \in Invocations :
        FailuresThenObject(inv[i]) =>
            /\ inv[i].requests = Len(inv[i].outcomes)
            /\ inv[i].release.t = "return"
            /\ BuiltFrom(inv[i].release.value,
                         inv[i].outcomes[Len(inv[i].outcomes)].body)

\* C4, amended: k transient failures (k < max_retries) and then a 200 with a
\* non-empty JSON object give exactly k+1 requests, and the fetcher returns
\* the ReleaseInfo built from that object.
C4_RetryThenSuccess ==
    \A i \in Invocations :
        (/\ FailuresThenObject(inv[i])
         /\ inv[i].outcomes[Len(inv[i].outcomes)].body # EmptyObject) =>
            /\ Len(inv[i].outcomes) <= inv[i].max_retries
            /\ inv[i].requests = Len(inv[i].outcomes)
            /\ inv[i].fetch.t = "return"
            /\ inv[i].release.t = "return"
            /\ BuiltFrom(inv[i].release.value,
                         inv[i].outcomes[Len(inv[i].outcomes)].body)

C4_Witness ==
    \E i \in Invocations :
        /\ FailuresThenObject(inv[i])
        /\ inv[i].requests = 3
        /\ inv[i].outcomes[1].kind = "timeout"
        /\ inv[i].outcomes[2].kind = "timeout"
        /\ inv[i].release.value.t = "ReleaseInfo"
        /\ inv[i].release.value.tag_name = Str(<<"v", "1", ".", "0">>)

\* C5: first success wins: an attempt that receives HTTP 200 is the last
\* one, whatever the body: no further request and no backoff sleep follow.
C5_FirstSuccessWins ==
    \A i \in Invocations :
        \A k \in 1..Len(inv[i].outcomes) :
            Got200(inv[i].outcomes[k]) =>
                /\ Returned(i)
                /\ inv[i].requests = k
                /\ Len(inv[i].sleeps) < k

\* C6, state part: a fetch never issues more than max_retries requests, and
\* when every attempt failed with a timeout or a connection error, exactly
\* max_retries requests were issued, the fetch raised a GitHubAPIError and
\* check_for_updates reports the failure status ERROR.
C6_Budget ==
    \A i \in Invocations :
        /\ inv[i].requests <= inv[i].max_retries
        /\ (/\ Returned(i)
            /\ \A k \in 1..Len(inv[i].outcomes) : Transient(inv[i].outcomes[k])) =>
              /\ inv[i].requests = inv[i].max_retries
              /\ Len(inv[i].outcomes) = inv[i].max_retries
              /\ inv[i].fetch.t = "raise"
              /\ inv[i].fetch.exc.t = "GitHubAPIError"
              /\ inv[i].result.status = ERROR

Describes(exc, o) ==
    /\ exc.t = "GitHubAPIError"
    /\ o.kind = "timeout" => exc.msg.m = "Request timeout"
    /\ o.kind = "client_error" => exc.msg.m = "Network error"
    /\ o.kind = "exception" => exc.msg.m = "Unexpected error"
    /\ /\ o.kind = "response" /\ o.status = 404
       => exc.msg.args =
            <<Msg("Repository not found or no releases available (HTTP 404)", <<>>)>>
    /\ /\ o.kind = "response" /\ o.status = 403
       => exc.msg.args = <<Msg("API rate limit exceeded (HTTP 403)", <<>>)>>
    /\ /\ o.kind = "response" /\ o.status = 500
       => exc.msg.args = <<Msg("HTTP status", <<[t |-> "int", n |-> 500]>>)>>
    /\ /\ Got200(o) /\ o.body = MalformedJson
       => exc.msg = Msg("Unexpected error", <<Msg("JSONDecodeError", <<>>)>>)
    /\ /\ Got200(o) /\ o.body = WrongContentType
       => exc.msg = Msg("Network error", <<Msg("ContentTypeError", <<>>)>>)

Failed(o) == ~Decoded200(o)

\* C8: the backoff schedule: the k-th sleep of a fetch follows failed attempt
\* k-1 (zero-indexed), lasts 2^(k-1) seconds, and happens only when
\* k-1 < max_retries - 1; every failed attempt but the last allowed one is
\* followed by its sleep; no sleep follows a successful attempt or the last
\* attempt, none precedes the first request.  So the total delay after n
\* sleeps is 2^n - 1: 3 seconds for two failures and a success, 2^(N-1) - 1
\* for N failures out of N attempts.
C8_BackoffSchedule ==
    \A i \in Invocations :
        /\ \A k \in 1..Len(inv[i].sleeps) :
              /\ inv[i].sleeps[k].attempt = k - 1
              /\ inv[i].sleeps[k].seconds = 2 ^ (k - 1)
              /\ k - 1 < inv[i].max_retries - 1
              /\ k <= Len(inv[i].outcomes)
              /\ Failed(inv[i].outcomes[k])
        /\ inv[i].requests <= 1 /\ inv[i].outcomes = <<>> => inv[i].sleeps = <<>>
        /\ inv[i].pc \in {"inflight", "sleeping"} =>
              Len(inv[i].sleeps) = Len(inv[i].outcomes)
        /\ Returned(i) /\ inv[i].outcomes # <<>> =>
              Len(inv[i].sleeps) = Len(inv[i].outcomes) - 1
        /\ SumSeq(SecondsOf(inv[i].sleeps)) = 2 ^ Len(inv[i].sleeps) - 1
        /\ (/\ Returned(i)
            /\ inv[i].outcomes # <<>>
            /\ Failed(inv[i].outcomes[Len(inv[i].outcomes)])) =>
              SumSeq(SecondsOf(inv[i].sleeps)) = 2 ^ (inv[i].max_retries - 1) - 1

C8_Witness ==
    \E i \in Invocations :
        /\ Returned(i)
        /\ Len(inv[i].outcomes) = 3
        /\ Transient(inv[i].outcomes[1])
        /\ Transient(inv[i].outcomes[2])
        /\ Decoded200(inv[i].outcomes[3])
        /\ SecondsOf(inv[i].sleeps) = <<1, 2>>

\* C9: the result is FETCH_FAILED exactly when the fetch ended without
\* raising on a 200 response whose JSON is empty or null, and ERROR when the
\* fetcher raised; either way latest_version is "unknown", both normalized
\* fields are empty, no release is attached to compare and compare_versions
\* did not run.
C9_FetchFailureClasses ==
    \A i \in Invocations :
        Returned(i) =>
            /\ inv[i].result.status = FETCH_FAILED <=>
                  /\ inv[i].fetch.t = "return"
                  /\ inv[i].outcomes # <<>>
                  /\ Got200(inv[i].outcomes[Len(inv[i].outcomes)])
                  /\ inv[i].outcomes[Len(inv[i].outcomes)].body \in FalsyBodies
            /\ inv[i].release.t = "raise" =>
                  /\ inv[i].release.exc.t = "GitHubAPIError"
                  /\ inv[i].result.status = ERROR
            /\ (inv[i].result.status = FETCH_FAILED \/ inv[i].release.t = "raise") =>
                  /\ inv[i].result.latest_version = Unknown
                  /\ inv[i].result.current_normalized = Empty
                  /\ inv[i].result.latest_normalized = Empty
                  /\ ~inv[i].compared

C9_Witness ==
    \E i \in Invocations :
        /\ Returned(i)
        /\ Len(inv[i].outcomes) = 2
        /\ inv[i].outcomes[1].kind = "timeout"
        /\ inv[i].outcomes[2].body = EmptyObject
        /\ inv[i].result.status = FETCH_FAILED

\* C10: every VersionComparison with status FETCH_FAILED or ERROR carries no
\* release_info.
C10_FailureHasNoRelease ==
    \A i \in Invocations :
        (Returned(i) /\ inv[i].result.status \in {FETCH_FAILED, ERROR}) =>
            inv[i].result.release_info = None

\* ------------------------------------------- claims on the pure methods
\* The compare_versions calls a state's log holds
ComparePositions == {k \in 1..Len(calls) : calls[k].op = "compare_versions"}
\* What compare_versions parsed in call c: the two normalized strings parsed
ParsedCurrent(c) == version_parse(_normalize_version(c.args[1]))
ParsedLatest(c) == version_parse(_normalize_version(c.args[2].tag_name))
BothParse(c) == ParsedCurrent(c).t = "Version" /\ ParsedLatest(c).t = "Version"

\* Version order, stated on the release numbers padded with zeros to one
\* length: a comes before b
ZeroPadded(nums, n) == [k \in 1..n |-> IF k <= Len(nums) THEN nums[k] ELSE 0]
FirstDifference(a, b) == {k \in 1..Len(a) : a[k] # b[k]}
PaddedLess(a, b) ==
    FirstDifference(a, b) # {} /\ a[Min(FirstDifference(a, b))] < b[Min(FirstDifference(a, b))]
LongerOf(a, b) == IF Len(a) > Len(b) THEN Len(a) ELSE Len(b)
Precedes(a, b) ==
    \/ PaddedLess(ZeroPadded(a.release, LongerOf(a.release, b.release)),
                  ZeroPadded(b.release, LongerOf(a.release, b.release)))
    \/ /\ ZeroPadded(a.release, LongerOf(a.release, b.release))
          = ZeroPadded(b.release, LongerOf(a.release, b.release))
       /\ a.post < b.post

\* C11: when both normalized forms parse, compare_versions returns OUTDATED
\* iff current < latest, AHEAD iff current > latest and UP_TO_DATE iff neither
\* (exactly one of the three), and the normalized fields hold the two
\* normalized strings; "1.0.0" against tag "v1.0.0" is UP_TO_DATE, "0.9.0"
\* against "1.0.0" OUTDATED, "2.0.0" against "1.5.0" AHEAD.
C11_CompareOrder ==
    \A k \in ComparePositions :
        LET c == calls[k]
            r == calls[k].result
        IN  /\ BothParse(c) =>
                /\ r.status \in {OUTDATED, AHEAD, UP_TO_DATE}
                /\ r.status = OUTDATED <=> Precedes(ParsedCurrent(c), ParsedLatest(c))
                /\ r.status = AHEAD <=> Precedes(ParsedLatest(c), ParsedCurrent(c))
                /\ r.status = UP_TO_DATE <=>
                      /\ ~Precedes(ParsedCurrent(c), ParsedLatest(c))
                      /\ ~Precedes(ParsedLatest(c), ParsedCurrent(c))
                /\ r.current_normalized = Str(_normalize_version(c.args[1]))
                /\ r.latest_normalized = Str(_normalize_version(c.args[2].tag_name))
            /\ (/\ c.args[1] = Str(<<"1", ".", "0", ".", "0">>)
                /\ c.args[2].tag_name = Str(<<"v", "1", ".", "0", ".", "0">>)) =>
                /\ r.status = UP_TO_DATE
                /\ r.latest_normalized = Str(<<"1", ".", "0", ".", "0">>)
            /\ (/\ c.args[1] = Str(<<"0", ".", "9", ".", "0">>)
                /\ c.args[2].tag_name = Str(<<"1", ".", "0", ".", "0">>)) =>
                r.status = OUTDATED
            /\ (/\ c.args[1] = Str(<<"2", ".", "0", ".", "0">>)
                /\ c.args[2].tag_name = Str(<<"1", ".", "5", ".", "0">>)) =>
                r.status = AHEAD

C11_Witness ==
    \E k \in ComparePositions :
        /\ calls[k].args[1] = Str(<<"2", ".", "0", ".", "0">>)
        /\ calls[k].args[2].tag_name = Str(<<"1", ".", "5", ".", "0">>)
        /\ calls[k].result.status = AHEAD
        /\ calls[k].result.latest_normalized = Str(<<"1", ".", "5", ".", "0">>)

\* A str with no digit in it
NoDigits(v) == IsStr(v) /\ v.s # <<>> /\ \A k \in 1..Len(v.s) : ~IsDigit(v.s[k])

\* C12: a current version string with no digits, compared against any latest
\* release, yields status INVALID_VERSION.
C12_NoDigitsInvalid ==
    \A k \in ComparePositions :
        NoDigits(calls[k].args[1]) => calls[k].result.status = INVALID_VERSION

\* The parser rejected a normalized string in call c: a version.parse call of
\* compare_versions raised InvalidVersion
ParserRejected(c) ==
    \/ ParsedCurrent(c).t = "InvalidVersion"
    \/ ParsedCurrent(c).t = "Version" /\ ParsedLatest(c).t = "InvalidVersion"

\* C13: when the parser rejects the normalized current version or the
\* normalized latest tag, compare_versions returns (it does not raise) a
\* VersionComparison with status INVALID_VERSION, both normalized fields
\* empty, the raw current and latest strings kept and the given release_info
\* attached.
C13_RejectedIsInvalid ==
    \A k \in ComparePositions :
        ParserRejected(calls[k]) =>
            /\ calls[k].result.t = "VersionComparison"
            /\ calls[k].result.status = INVALID_VERSION
            /\ calls[k].result.current_normalized = Empty
            /\ calls[k].result.latest_normalized = Empty
            /\ calls[k].result.current_version = calls[k].args[1]
            /\ calls[k].result.latest_version = calls[k].args[2].tag_name
            /\ calls[k].result.release_info = calls[k].args[2]

C13_Witness ==
    \E k \in ComparePositions :
        /\ calls[k].args[1] = Str(<<"1", ".", "0", ".", "0">>)
        /\ calls[k].args[2].tag_name = Str(<<"2", "x">>)
        /\ calls[k].result.status = INVALID_VERSION
        /\ calls[k].result.release_info = calls[k].args[2]

\* C14: compare_versions never throws: for every current version and every
\* ReleaseInfo (empty, non-numeric, missing or null tag_name included) it
\* returns a VersionComparison, and whenever a step of the comparison failed
\* the status is INVALID_VERSION or ERROR.
C14_CompareTotal ==
    \A k \in ComparePositions :
        /\ calls[k].result.t = "VersionComparison"
        /\ calls[k].result.status \in {UP_TO_DATE, OUTDATED, AHEAD, INVALID_VERSION, ERROR}
        /\ ~BothParse(calls[k]) <=> calls[k].result.status \in {INVALID_VERSION, ERROR}

C14_Witness ==
    \E k \in ComparePositions :
        /\ calls[k].args[1] = Str(<<>>)
        /\ calls[k].args[2].tag_name = Str(<<BigDigits>>)
        /\ calls[k].result.t = "VersionComparison"
        /\ calls[k].result.status = ERROR

\* The fetch of invocation s returned a ReleaseInfo (the success path)
Fetched(s) ==
    s.pc = "returned" /\ s.release.t = "return" /\ s.release.value.t = "ReleaseInfo"

\* The two versions of a comparison are equal in version order
SameVersion(current_version, tag_name) ==
    LET cur == version_parse(_normalize_version(current_version))
        lat == version_parse(_normalize_version(tag_name))
    IN  /\ cur.t = "Version" /\ lat.t = "Version"
        /\ ~Precedes(cur, lat) /\ ~Precedes(lat, cur)

\* C15, state part: on the success path the result is what compare_versions
\* gives for (configured version, fetched release): release_info is the fetched
\* ReleaseInfo, latest_version its tag_name, equal versions give UP_TO_DATE;
\* and the comparison ran only after a fetch that returned, from a 200
\* response that was the last request.
C15_ResultIsComparison ==
    \A i \in Invocations :
        /\ Fetched(inv[i]) =>
              /\ inv[i].compared
              /\ inv[i].result =
                    compare_versions(inv[i].result.current_version, inv[i].release.value)
              /\ inv[i].result.release_info = inv[i].release.value
              /\ inv[i].result.latest_version = inv[i].release.value.tag_name
              /\ SameVersion(inv[i].result.current_version, inv[i].release.value.tag_name)
                    => inv[i].result.status = UP_TO_DATE
        /\ inv[i].compared =>
              /\ Fetched(inv[i])
              /\ inv[i].fetch.t = "return"
              /\ inv[i].requests = Len(inv[i].outcomes)
              /\ Got200(inv[i].outcomes[Len(inv[i].outcomes)])

\* C15: the state part above, and once the comparison ran no further HTTP
\* request is issued and the result no longer changes.
C15_SuccessPath ==
    /\ []C15_ResultIsComparison
    /\ [][\A i \in Invocations :
             inv[i].compared =>
                 inv'[i].requests = inv[i].requests /\ inv'[i].result = inv[i].result]_vars
    /\ [][\A i \in Invocations :
             inv'[i].requests > inv[i].requests => ~inv'[i].compared]_vars

C15_Witness ==
    \E i \in Invocations :
        /\ Fetched(inv[i])
        /\ inv[i].requests = 2
        /\ inv[i].outcomes[1].kind = "timeout"
        /\ inv[i].result.current_version = Str(<<"1">>)
        /\ inv[i].release.value.tag_name = Str(<<"v", "1", ".", "0">>)
        /\ inv[i].result.status = UP_TO_DATE
        /\ inv[i].result.release_info = inv[i].release.value

\* The _normalize_version calls a state's log holds
NormalizePositions == {k \in 1..Len(calls) : calls[k].op = "_normalize_version"}

\* The reference definition of the normalizer, step by step on positions.
\* Trim: from the first to the last character that is no whitespace.
Largest(S) == CHOOSE x \in S : \A y \in S : x >= y
RefTrim(s) ==
    LET solid == {k \in 1..Len(s) : s[k] \notin Whitespace}
    IN  IF solid = {} THEN <<>> ELSE SubSeq(s, Min(solid), Largest(solid))
\* One leading label of {v, version, release, tag}, case-insensitive: the
\* longest one the text starts with
RefLabelLength(s) ==
    LET found == {Len(Labels[k]) : k \in {j \in 1..Len(Labels) : StartsWithCI(s, Labels[j])}}
    IN  IF found = {} THEN 0 ELSE Largest(found)
\* The text from its first character outside `skipped` on (nothing if none)
RefFrom(s, skipped) ==
    LET stops == {k \in 1..Len(s) : s[k] \notin skipped}
    IN  IF stops = {} THEN <<>> ELSE SubSeq(s, Min(stops), Len(s))
\* The label is removed with the separators after it, but only a label
RefUnlabelled(s) ==
    IF RefLabelLength(s) = 0 THEN s
    ELSE RefFrom(SubSeq(s, RefLabelLength(s) + 1, Len(s)), Whitespace \cup {"-", "_"})
\* Leading non-digits are stripped: the text from its first digit on
RefFromDigit(s) ==
    LET digits == {k \in 1..Len(s) : IsDigit(s[k])}
    IN  IF digits = {} THEN <<>> ELSE SubSeq(s, Min(digits), Len(s))
RefNormalize(s) ==
    LET rest == RefFromDigit(RefUnlabelled(RefTrim(s)))
    IN  IF rest = <<>> THEN <<"0", ".", "0", ".", "0">> ELSE rest

\* C16: the normalizer is total and equals its reference definition on every
\* input (trim, remove one leading label and the separators after it, strip
\* leading non-digits, "0.0.0" if nothing remains, else the remainder as it
\* is): normalize("v1.2.3") = "1.2.3", normalize("Version 2.0") = "2.0",
\* normalize("") = "0.0.0", normalize("garbage") = "0.0.0"; an argument that
\* is no str gives "0.0.0" too.
C16_NormalizerReference ==
    \A k \in NormalizePositions :
        LET arg == calls[k].args[1]
            out == calls[k].result
        IN  /\ out.t = "str" /\ out.s # <<>>
            /\ IsStr(arg) => out.s = RefNormalize(arg.s)
            /\ ~IsStr(arg) => out.s = <<"0", ".", "0", ".", "0">>
            /\ arg = Str(<<"v", "1", ".", "2", ".", "3">>) => out.s = <<"1", ".", "2", ".", "3">>
            /\ arg = Str(<<"V", "e", "r", "s", "i", "o", "n", " ", "2", ".", "0">>)
                  => out.s = <<"2", ".", "0">>
            /\ arg = Str(<<>>) => out.s = <<"0", ".", "0", ".", "0">>
            /\ arg = Str(<<"g", "a", "r", "b", "a", "g", "e">>)
                  => out.s = <<"0", ".", "0", ".", "0">>

C16_Witness ==
    \E k \in NormalizePositions :
        /\ calls[k].args[1] = Str(<<"V", "e", "r", "s", "i", "o", "n", " ", "2", ".", "0">>)
        /\ calls[k].result = Str(<<"2", ".", "0">>)

\* The _convert_to_api_url calls a state's log holds
ResolvePositions == {k \in 1..Len(calls) : calls[k].op = "_convert_to_api_url"}

\* The two accepted forms, stated on positions.  Full form: somewhere in s,
\* github.com, ":" or "/", an owner, "/", a repository name, and then nothing
\* but an optional ".git" and an optional "/".
RefFullForm(s) ==
    \E p \in 1..Len(s), q \in 1..Len(s), e \in 1..Len(s) :
        /\ s[p] = "G" /\ p + 1 <= Len(s) /\ s[p + 1] \in {":", "/"}
        /\ p + 2 < q /\ s[q] = "/" /\ q < e
        /\ \A k \in (p + 2)..(q - 1) : s[k] # "/"
        /\ \A k \in (q + 1)..e : s[k] # "/"
        /\ SubSeq(s, e + 1, Len(s)) \in {<<>>, <<"T">>, <<"/">>, <<"T", "/">>}
\* Short form: an owner, one "/", a repository name, and nothing else
RefShortForm(s) ==
    \E q \in 2..(Len(s) - 1) : s[q] = "/" /\ \A k \in 1..Len(s) : s[k] = "/" => k = q

\* Owner and repository names that hold no "/" and do not end in ".git"
PlainNames == { <<"a">>, <<"b">>, <<"a", " ", "b">> }
FullUrl(owner, repo, suffix) ==
    <<"h", ":", "/", "/", "G", "/">> \o owner \o <<"/">> \o repo \o suffix
ShortRef(owner, repo) == owner \o <<"/">> \o repo

\* C17: the full form (with or without ".git", with or without a trailing
\* slash) and the short form of one owner/repo resolve to the same endpoint,
\* repos/<owner>/<repo>/releases/latest; an input of neither form ("not a
\* repo") is rejected with a GitHubAPIError and no endpoint is guessed.
C17_ResolverForms ==
    \A k \in ResolvePositions :
        LET s == calls[k].args[1].s
            r == calls[k].result
        IN  /\ r.ok <=> (RefFullForm(s) \/ RefShortForm(s))
            /\ ~r.ok => r.url = None /\ r.exc.t = "GitHubAPIError"
            /\ r.ok => r.exc = None /\ NoSlash(r.url.owner) /\ NoSlash(r.url.repo)
            /\ \A owner \in PlainNames, repo \in PlainNames :
                  /\ \A suffix \in {<<>>, <<"T">>, <<"/">>, <<"T", "/">>} :
                        s = FullUrl(owner, repo, suffix)
                            => r.ok /\ r.url = [owner |-> owner, repo |-> repo]
                  /\ s = ShortRef(owner, repo)
                        => r.ok /\ r.url = [owner |-> owner, repo |-> repo]
            /\ s = <<"a", " ", "b">> => ~r.ok

C17_Witness ==
    \E k \in ResolvePositions :
        /\ calls[k].args[1].s = FullUrl(<<"a">>, <<"b">>, <<"T">>)
        /\ calls[k].result.ok
        /\ calls[k].result.url = _convert_to_api_url(ShortRef(<<"a">>, <<"b">>)).url

ReturningAttempts(outcomes) ==
    {k \in 1..Len(outcomes) : AttemptBody(outcomes[k]).t = "return"}
ExpectedFetch(outcomes) ==
    IF ReturningAttempts(outcomes) # {}
    THEN AttemptBody(outcomes[Min(ReturningAttempts(outcomes))])
    ELSE IF outcomes = <<>>
    THEN Raise(GitHubAPIError(Msg("All retry attempts failed", <<>>)))
    ELSE Raise(ExceptClauses(AttemptBody(outcomes[Len(outcomes)]).exc))
ExpectedResult(outcomes, VERSION) ==
    check_for_updates(get_latest_release(ExpectedFetch(outcomes)), VERSION)

\* C19, state part: the result of every invocation is the one its own
\* configured version and the responses to its own requests determine; it
\* issued its own requests, one session each (none is shared, none is left
\* out because another invocation already has a result), and holds a session
\* exactly while its own request is in flight.
C19_OwnInputsOnly ==
    \A i \in Invocations :
        /\ Returned(i) =>
              /\ inv[i].result.t = "VersionComparison"
              /\ inv[i].result =
                    ExpectedResult(inv[i].outcomes, inv[i].result.current_version)
              /\ inv[i].requests = Len(inv[i].outcomes)
              /\ inv[i].max_retries >= 1 => inv[i].requests >= 1
        /\ inv[i].open_sessions = (IF inv[i].pc = "inflight" THEN 1 ELSE 0)
        /\ inv[i].pc = "inflight" => inv[i].requests = Len(inv[i].outcomes) + 1

\* C19: invocations are independent under every interleaving: the state
\* part above, and every step changes the state of one invocation only,
\* leaving what the others wrote as it is.
C19_Independent ==
    /\ []C19_OwnInputsOnly
    /\ [][\E i \in Invocations : \A j \in Invocations \ {i} : inv'[j] = inv[j]]_vars

\* Two invocations that were served the same release ran to their ends, one
\* in one request and one in two, and ended differently
C19_Witness ==
    /\ Returned(1) /\ Returned(2)
    /\ inv[1].result.status = UP_TO_DATE
    /\ inv[1].requests = 1
    /\ inv[2].requests = 2
    /\ inv[2].outcomes[1].kind = "timeout"
    /\ inv[2].result.status = OUTDATED
    /\ inv[2].result.release_info = inv[1].result.release_info

\* C20: scoped session acquisition: the session an attempt opens is released
\* when the attempt ends, whatever its outcome (every session opened but the
\* one of an attempt still in flight has been released); an invocation holds
\* at most one open session, none during a backoff sleep and none once the
\* fetch has returned or raised.
C20_SessionsScoped ==
    \A i \in Invocations :
        /\ inv[i].open_sessions \in {0, 1}
        /\ inv[i].open_sessions = inv[i].requests - Len(inv[i].outcomes)
        /\ inv[i].open_sessions = 1 <=> inv[i].pc = "inflight"
        /\ inv[i].pc = "sleeping" => inv[i].open_sessions = 0
        /\ inv[i].fetch.t \in {"return", "raise"} => inv[i].open_sessions = 0
        /\ Returned(i) => inv[i].open_sessions = 0

\* A fetch whose attempts ended by a non-200 status, by an unexpected
\* exception and by a 200, with a sleep after each of the first two
C20_Witness ==
    \E i \in Invocations :
        /\ Returned(i)
        /\ Len(inv[i].outcomes) = 3
        /\ Non200(inv[i].outcomes[1])
        /\ inv[i].outcomes[2].kind = "exception"
        /\ Decoded200(inv[i].outcomes[3])
        /\ Len(inv[i].sleeps) = 2
        /\ inv[i].requests = 3
        /\ inv[i].open_sessions = 0

\* ------------------------------------------------------- claims on the host
\* C21, state part: an invocation its caller cancelled has stopped where it
\* was: the cancellation has left check_bot_updates, no result was produced
\* from it, and no session is open.
C21_CancelledStops ==
    \A i \in Invocations :
        inv[i].cancel_requested =>
            /\ inv[i].pc = "cancelled"
            /\ inv[i].raised = CancelledError
            /\ inv[i].result = None
            /\ inv[i].open_sessions = 0

\* C21, step part: the step that cancels an invocation starts no request and
\* no sleep, records no failed attempt and captures no error; a cancelled
\* invocation takes no further step.
C21_CancelStep ==
    \A i \in Invocations :
        /\ (~inv[i].cancel_requested /\ inv'[i].cancel_requested) =>
              /\ inv[i].pc \in {"inflight", "sleeping"}
              /\ inv'[i].requests = inv[i].requests
              /\ inv'[i].sleeps = inv[i].sleeps
              /\ inv'[i].outcomes = inv[i].outcomes
              /\ inv'[i].attempt = inv[i].attempt
              /\ inv'[i].last_exception = inv[i].last_exception
              /\ inv'[i].open_sessions = 0
        /\ inv[i].pc = "cancelled" => inv'[i] = inv[i]

\* C21: Cancellation safety.  If the caller cancels an invocation while a
\* request is in flight or during a backoff sleep, the invocation stops there:
\* the cancellation is not treated as a retryable failure, no further attempt
\* or sleep is started, and no session remains open afterwards.
C21_CancellationSafe == []C21_CancelledStops /\ [][C21_CancelStep]_vars

\* An invocation cancelled while its second request was in flight, after one
\* failed attempt and one backoff sleep
C21_Witness ==
    \E i \in Invocations :
        /\ inv[i].pc = "cancelled"
        /\ inv[i].requests = 2
        /\ Len(inv[i].outcomes) = 1
        /\ Len(inv[i].sleeps) = 1
        /\ inv[i].open_sessions = 0

\* C22, state part: an attempt that timed out took exactly the configured
\* timeout, whatever time earlier attempts and sleeps took; every other
\* attempt ended before its timeout; the request in flight has used no more
\* than the time since it was issued.
C22_OwnBudget ==
    \A i \in Invocations :
        /\ Len(inv[i].durations) = Len(inv[i].outcomes)
        /\ \A k \in 1..Len(inv[i].outcomes) :
              IF inv[i].outcomes[k].kind = "timeout"
              THEN inv[i].durations[k] = inv[i].timeout
              ELSE inv[i].durations[k] < inv[i].timeout
        /\ inv[i].pc = "inflight" =>
              /\ inv[i].started <= inv[i].now
              /\ inv[i].now - inv[i].started <= inv[i].timeout

\* C22, step part: a request is issued with the full timeout ahead of it, and
\* a backoff sleep moves the clock and the start of the next attempt alike.
C22_FreshTimer ==
    \A i \in Invocations :
        /\ (inv[i].pc # "inflight" /\ inv'[i].pc = "inflight") =>
              /\ inv'[i].started = inv'[i].now
              /\ inv'[i].timeout = inv[i].timeout
        /\ (inv[i].pc = "sleeping" /\ inv'[i] # inv[i]) =>
              inv'[i].now = inv[i].now + BackoffSeconds(inv[i].attempt)

\* C22: The timeout is enforced per HTTP attempt and is not cumulative: every
\* attempt starts with the full configured timeout, however much time earlier
\* attempts and backoff sleeps took, and the time of a backoff sleep counts
\* against no attempt's timeout.
C22_PerAttemptTimeout == []C22_OwnBudget /\ [][C22_FreshTimer]_vars

\* Two attempts that each ran into the full timeout, then a 200 on the third,
\* at a time later than one timeout after the start of the check
C22_Witness ==
    \E i \in Invocations :
        /\ inv[i].pc = "returned"
        /\ Len(inv[i].outcomes) = 3
        /\ inv[i].outcomes[1].kind = "timeout"
        /\ inv[i].outcomes[2].kind = "timeout"
        /\ Got200(inv[i].outcomes[3])
        /\ inv[i].durations = <<inv[i].timeout, inv[i].timeout, 1>>
        /\ inv[i].now > 2 * inv[i].timeout + 3

\* The 200 bodies that are no release object: undecodable, served with another
\* content type, or a non-empty array
UnparsableBodies == {MalformedJson, WrongContentType, JArray(1)}

\* C23: A 200 response whose body is malformed JSON or has an unexpected shape
\* (such as a non-empty array) becomes a typed API error where the release
\* info is constructed: the attempt that met it is the last one (no further
\* retry attempt is consumed), get_latest_release raises GitHubAPIError and
\* nothing else, and check_for_updates reports status ERROR.
C23_ParseErrorAtConstruction ==
    \A i \in Invocations :
        \A k \in 1..Len(inv[i].outcomes) :
            (Got200(inv[i].outcomes[k]) /\ inv[i].outcomes[k].body \in UnparsableBodies) =>
                /\ inv[i].pc = "returned"
                /\ inv[i].requests = k
                /\ inv[i].release.t = "raise"
                /\ inv[i].release.exc.t = "GitHubAPIError"
                /\ inv[i].result.status = ERROR

\* The statuses that report a failure of the fetch or of the comparison
FailureStatuses == {ERROR, FETCH_FAILED, INVALID_VERSION}

\* C24, state part: no exception of the constructor, the fetch or the
\* comparison leaves check_bot_updates, and when it has ended after such a
\* failure it has printed the failure message.
C24_FailurePrinted ==
    \A i \in Invocations :
        /\ inv[i].pc # "crashed"
        /\ inv[i].pc = "done" =>
              /\ inv[i].printed # <<>>
              /\ inv[i].raised # None =>
                    inv[i].printed =
                        <<Msg("Failed to check for updates", <<inv[i].raised.msg>>)>>
              /\ inv[i].raised = None =>
                    /\ inv[i].result.t = "VersionComparison"
                    /\ inv[i].printed[1] = inv[i].result.message
                    /\ inv[i].result.status \in FailureStatuses =>
                          inv[i].result.message.m \in
                              {"GitHub API error", "Unexpected error", "Invalid version format",
                               "Error comparing versions",
                               "Failed to fetch release information from GitHub"}

\* C24, step part: once the constructor has raised or check_for_updates has
\* returned, the only step of the invocation is the normal end of
\* check_bot_updates.
C24_EndsNormally ==
    \A i \in Invocations :
        (inv[i].pc \in {"ctor_raised", "returned"} /\ inv'[i] # inv[i]) =>
            inv'[i].pc = "done"

\* C24: Nothing below the orchestrator can crash the host.  check_bot_updates
\* returns without raising for every failure of the checker's construction
\* (an unresolvable or missing repository reference included), of the fetch
\* and of the comparison, and in each case it prints a failure message.
C24_HostNeverCrashes == []C24_FailurePrinted /\ [][C24_EndsNormally]_vars

\* check_bot_updates has ended normally although no repository reference was
\* configured: the constructor's AttributeError was printed
C24_Witness ==
    \E i \in Invocations :
        /\ inv[i].pc = "done"
        /\ inv[i].REPO_URL = None
        /\ inv[i].raised = OtherError("AttributeError")
        /\ inv[i].printed =
              <<Msg("Failed to check for updates", <<OtherError("AttributeError").msg>>)>>

\* --------------------------------------------------- claims on the fetcher
\* The generic error of a fetch that captured none
AllAttemptsFailed == GitHubAPIError(Msg("All retry attempts failed", <<>>))

\* What an invocation that met nothing reports
ExhaustedUnused(s) ==
    /\ s.pc = "returned"
    /\ s.requests = 0
    /\ s.sleeps = <<>>
    /\ s.outcomes = <<>>
    /\ s.open_sessions = 0
    /\ s.fetch = Raise(AllAttemptsFailed)
    /\ s.release = Raise(AllAttemptsFailed)
    /\ s.result.status = ERROR
    /\ s.result.message = Msg("GitHub API error", <<AllAttemptsFailed.msg>>)

\* check_for_updates of a checker constructed with max_retries = -1
NegativeBudget ==
    LoopHead([NewInvocation EXCEPT !.pc = "ready", !.max_retries = -1], Str(<<"1">>))

Defaulted(field, value, default) ==
    /\ value = Absent => field = default
    /\ value # Absent => field = value

\* release is the ReleaseInfo of the JSON object data
BuiltWithDefaults(release, data) ==
    /\ release.t = "ReleaseInfo"
    /\ Defaulted(release.tag_name, data.tag_name, Unknown)
    /\ Defaulted(release.name, data.name, Empty)
    /\ Defaulted(release.html_url, data.html_url, Empty)
    /\ Defaulted(release.published_at, data.published_at, Empty)
    /\ Defaulted(release.body, data.body, Empty)

\* JSON objects with every choice of present and absent fields
FieldValues == {Absent, Str(<<"x">>)}
FieldObjects ==
    { JObject(tag_name, name, html_url, published_at, body, other) :
        tag_name \in FieldValues, name \in FieldValues, html_url \in FieldValues,
        published_at \in FieldValues, body \in FieldValues, other \in BOOLEAN }

\* C26: A ReleaseInfo built from a non-empty 200 JSON object defaults every
\* absent field: a missing tag_name becomes "unknown", a missing name,
\* html_url, published_at or body the empty string; present fields are
\* copied unchanged; and a ReleaseInfo is only ever created from a successful
\* (200) response.
C26_ReleaseInfoDefaults ==
    /\ \A i \in Invocations :
          LET s == inv[i]
              n == Len(s.outcomes)
          IN  /\ (\/ s.release.value.t = "ReleaseInfo"
                  \/ (s.pc = "returned" /\ s.result.release_info # None)) =>
                    /\ Fetched(s)
                    /\ n > 0
                    /\ Got200(s.outcomes[n])
                    /\ s.outcomes[n].body.t = "object"
                    /\ BuiltWithDefaults(s.release.value, s.outcomes[n].body)
              /\ (s.pc = "returned" /\ n > 0 /\ Got200(s.outcomes[n])
                  /\ s.outcomes[n].body.t = "object" /\ s.outcomes[n].body # EmptyObject) =>
                    BuiltWithDefaults(s.release.value, s.outcomes[n].body)
    /\ \A data \in FieldObjects \cup {FullObject} :
          data # EmptyObject =>
              LET release == get_latest_release(Return(data))
              IN  release.t = "return" /\ BuiltWithDefaults(release.value, data)

\* A release fetched from a 200 object without tag_name and with a name: the
\* tag is "unknown", the name is copied, the other fields are empty
C26_Witness ==
    \E i \in Invocations :
        /\ Fetched(inv[i])
        /\ inv[i].outcomes[Len(inv[i].outcomes)].body.tag_name = Absent
        /\ inv[i].release.value =
              ReleaseInfo(Unknown, Str(<<"n">>), Empty, Empty, Empty)

\* ------------------------------------------------------- rendered messages
\* The text of the f-strings of compare_versions, character by character
\* ("emoji" stands for the leading emoji, one character no version holds)
OutdatedText ==
    <<"emoji", " ", "O", "h", " ", "n", "o", "!", " ", "T", "h", "e",
      " ", "b", "o", "t", "'", "s", " ", "l", "i", "v", "i", "n",
      "g", " ", "i", "n", " ", "t", "h", "e", " ", "p", "a", "s",
      "t", ".", " ", "C", "u", "r", "r", "e", "n", "t", ":", " ",
      "v">>
AheadText ==
    <<"emoji", " ", "T", "i", "m", "e", " ", "t", "r", "a", "v", "e",
      "l", "e", "r", " ", "d", "e", "t", "e", "c", "t", "e", "d",
      "!", " ", "T", "h", "e", " ", "b", "o", "t", "'", "s", " ",
      "f", "r", "o", "m", " ", "t", "h", "e", " ", "f", "u", "t",
      "u", "r", "e", ".", " ", "C", "u", "r", "r", "e", "n", "t",
      ":", " ", "v">>
UpToDateText ==
    <<"emoji", " ", "A", "l", "l", " ", "s", "y", "s", "t", "e", "m",
      "s", " ", "g", "o", "!", " ", "T", "h", "e", " ", "b", "o",
      "t", " ", "i", "s", " ", "a", "s", " ", "f", "r", "e", "s",
      "h", " ", "a", "s", " ", "i", "t", " ", "g", "e", "t", "s",
      ".", " ", "V", "e", "r", "s", "i", "o", "n", ":", " ", "v">>
LatestText == <<",", " ", "L", "a", "t", "e", "s", "t", ":", " ">>

\* str() of a value interpolated into an f-string
Interpolated(v) == IF v.t = "str" THEN v.s ELSE <<"None">>

\* The message of a comparison of two parsable versions as the user reads it
Render(message) ==
    IF message.m = "outdated"
    THEN OutdatedText \o Interpolated(message.args[1]) \o LatestText
                      \o Interpolated(message.args[2])
    ELSE IF message.m = "ahead"
    THEN AheadText \o Interpolated(message.args[1]) \o LatestText
                   \o Interpolated(message.args[2])
    ELSE UpToDateText \o Interpolated(message.args[1])

\* text holds part as a run of consecutive characters
Contains(text, part) ==
    \E k \in 0..(Len(text) - Len(part)) : SubSeq(text, k + 1, k + Len(part)) = part

\* C27: For every status compare_versions produces on parsable input
\* (OUTDATED, AHEAD, UP_TO_DATE), the rendered message contains both the raw
\* current version string and the raw latest version string
\* (release_info.tag_name), not their normalized forms.
C27_MessageHasBothVersions ==
    \A k \in ComparePositions :
        LET c == calls[k]
            r == calls[k].result
        IN  r.status \in {OUTDATED, AHEAD, UP_TO_DATE} =>
                /\ Contains(Render(r.message), Interpolated(c.args[1]))
                /\ Contains(Render(r.message), Interpolated(c.args[2].tag_name))

\* ------------------------------------------------- claims on derived values
TruncatePositions == {k \in 1..Len(calls) : calls[k].op = "truncated_body"}

\* C28: truncated_body is a hard cap of 500 characters: its length never
\* exceeds 500; a body of at most 500 characters is returned unchanged, and a
\* longer body is cut and marked with an ellipsis.
C28_HardCap ==
    \A k \in TruncatePositions :
        LET body == calls[k].args[1].s
            out  == calls[k].result.s
        IN  /\ Len(out) <= 500
            /\ Len(body) <= 500 => out = body
            /\ Len(body) > 500 =>
                  /\ Len(out) < Len(body)
                  /\ SubSeq(out, Len(out) - 2, Len(out)) = <<".", ".", ".">>
                  /\ SubSeq(out, 1, Len(out) - 3) = SubSeq(body, 1, Len(out) - 3)

\* C29, on one call: the output is not empty and begins with a digit; it is
\* "0.0.0" or the rest of the trimmed input from one of its digits on; and
\* normalizing it returns it unchanged.
C29_Shape(arg, out) ==
    /\ out # <<>>
    /\ IsDigit(out[1])
    /\ \/ out = ZeroVersion
       \/ /\ IsStr(arg)
          /\ \E k \in 1..Len(RefTrim(arg.s)) :
                /\ out = SubSeq(RefTrim(arg.s), k, Len(RefTrim(arg.s)))
                /\ \A j \in (RefLabelLength(RefTrim(arg.s)) + 1)..(k - 1) :
                      ~IsDigit(RefTrim(arg.s)[j])
    /\ _normalize_version(Str(out)) = out

\* C29: Normalizer output shape and idempotence.  For every input the output
\* of _normalize_version is non-empty and begins with a digit (it is "0.0.0"
\* or a suffix of the trimmed input starting at its first digit after the
\* label), and normalizing a normalized string returns it unchanged:
\* normalize(normalize(x)) = normalize(x).
C29_NormalizerIdempotent ==
    \A k \in NormalizePositions :
        /\ calls[k].result.t = "str"
        /\ C29_Shape(calls[k].args[1], calls[k].result.s)
        /\ (k > 1 /\ calls[k - 1].op = "_normalize_version"
                  /\ calls[k].args[1] = calls[k - 1].result) =>
              calls[k].result = calls[k - 1].result

\* "Version 2.0" was normalized to "2.0", and "2.0" was normalized again
C29_Witness ==
    /\ Len(calls) = 2
    /\ calls[1].args[1] = Str(<<"V", "e", "r", "s", "i", "o", "n", " ", "2", ".", "0">>)
    /\ calls[2].op = "_normalize_version"
    /\ calls[2].args[1] = Str(<<"2", ".", "0">>)
    /\ calls[2].result = Str(<<"2", ".", "0">>)

\* ----------------------------------------------- claims on the mention tree
\* The ids of the commands stored for a scope (none when nothing is stored)
StoredIds(guild_id) ==
    IF tree.application_commands[guild_id] = Missing THEN {}
    ELSE {tree.application_commands[guild_id].commands[k].id :
            k \in 1..Len(tree.application_commands[guild_id].commands)}

\* C30: MentionTree cache coherence.  After any interleaving of sync,
\* fetch_commands and find_mention_for over the guilds and the global scope,
\* every mention stored in cache[g] carries the id of a command that is now
\* in application_commands[g] or, resolved through the global fallback, in
\* application_commands[None].
C30_CacheCoherent ==
    \A guild_id \in Scopes :
        tree.cache[guild_id] # Missing =>
            \A command \in CommandArgs :
                tree.cache[guild_id].entries[command] # Missing =>
                    tree.cache[guild_id].entries[command].id \in
                        StoredIds(guild_id) \cup StoredIds(GlobalScope)

====
